---------------------------- MODULE Spec2Model ----------------------------
(***************************************************************************)
(* A model of the z-units library: Unit (factor/offset conversion),        *)
(* UnitRegistry, Quantity and the process-wide configuration.              *)
(*                                                                         *)
(* The repository holds three generations of the package.  The model       *)
(* follows the files as they are:                                          *)
(*   zunits/quantity.py          Quantity with string parsing, comparison  *)
(*                               and the unit setter; it works on the      *)
(*                               Unit and list-built UnitRegistry of       *)
(*                               z_unit/unit.py, z_unit/unit_registry.py   *)
(*   z_units/quantity.py         Quantity over the register()-built        *)
(*                               UnitRegistry of z_units/unit_registry.py  *)
(*   z_units/config.py           the configuration both read               *)
(* The state variable pkg says which package the running program imports.  *)
(*                                                                         *)
(* Numbers are Python floats.  A float is modelled as a binary floating    *)
(* point number <<m, e>> (value m * 2^e, m odd or zero) with Precision     *)
(* significant bits and round-half-to-even after every operation, as IEEE  *)
(* 754 arithmetic does with 53 bits.                                       *)
(***************************************************************************)
EXTENDS Integers, Sequences, FiniteSets, TLC

VARIABLES
  unit_registry,  \* the registries the modules z_unit.unit_registry and z_units.unit_registry hold
  env,      \* z_units/environment.py _default_env, the global Environment
  pkg,      \* "zunits" or "z_units": the package the program imports
  classes,  \* the kinds of Quantity the program works with
  config,   \* z_units/config.py _config
  x,        \* the program's variables holding Quantity objects: name -> object
  last,     \* the last completed call: what was called, on what, how it ended
  stack,    \* the nested `*` evaluations in progress (Quantity.__rmul__ -> self * other)
  ncalls,   \* __mul__/__rmul__ calls made by the `*` evaluation in progress
  registry, \* a z_units UnitRegistry under construction (register calls)
  trip      \* a value taken through Unit.to_base_unit / Unit.from_base_unit calls

vars == <<unit_registry, env, pkg, classes, config, x, last, stack, ncalls, registry, trip>>

---------------------------------------------------------------------------
(* Bounds of the model *)

\* significant bits of a float (53 in CPython)
Precision == 6

\* the interpreter's recursion limit (sys.getrecursionlimit(), 1000 by default)
RecursionLimit == 4

\* the values converted by Unit.to_base_unit / from_base_unit: -MaxValue..MaxValue
MaxValue == 12

\* the conversions chained on one value
MaxTrip == 2

---------------------------------------------------------------------------
(* Python floats *)

Abs(n) == IF n < 0 THEN -n ELSE n

Sign(n) == IF n < 0 THEN -1 ELSE 1

RECURSIVE BitLen(_)
BitLen(n) == IF n = 0 THEN 0 ELSE 1 + BitLen(n \div 2)

RECURSIVE Norm(_, _)
Norm(m, e) ==
  IF m = 0 THEN <<0, 0>>
  ELSE IF m % 2 = 0 THEN Norm(m \div 2, e + 1)
  ELSE <<m, e>>

\* n * 2^e rounded to Precision significant bits, ties to even
Round(n, e) ==
  LET a == Abs(n)
      k == BitLen(a) - Precision
  IN IF k <= 0 THEN Norm(n, e)
     ELSE LET q == a \div (2 ^ k)
              r == a % (2 ^ k)
              h == 2 ^ (k - 1)
              up == r > h \/ (r = h /\ q % 2 = 1)
          IN Norm(Sign(n) * (IF up THEN q + 1 ELSE q), e + k)

\* a * b
fmul(a, b) == Round(a[1] * b[1], a[2] + b[2])

fneg(a) == <<-a[1], a[2]>>

\* a + b; an addend below a quarter of the other's last place cannot change it
fadd(a, b) ==
  IF a[1] = 0 THEN b
  ELSE IF b[1] = 0 THEN a
  ELSE LET hi == IF a[2] >= b[2] THEN a ELSE b
           lo == IF a[2] >= b[2] THEN b ELSE a
           d == hi[2] - lo[2]
       IN IF d >= 2 * Precision + 1 THEN hi
          ELSE Round(hi[1] * (2 ^ d) + lo[1], lo[2])

\* a - b
fsub(a, b) == fadd(a, fneg(b))

\* the integer ratio n / d (d > 0) correctly rounded: a float literal such as 1e-1
FromRatio(n, d) ==
  IF n = 0 THEN <<0, 0>>
  ELSE LET w == Precision + 2 + BitLen(d) - BitLen(Abs(n))
           s == IF w > 0 THEN w ELSE 0
           q == (Abs(n) * (2 ^ s)) \div d
           r == (Abs(n) * (2 ^ s)) % d
       IN Round(Sign(n) * (2 * q + (IF r = 0 THEN 0 ELSE 1)), 0 - s - 1)

\* a / b, b # 0 (the caller raises ZeroDivisionError before)
fdiv(a, b) ==
  IF a[1] = 0 THEN <<0, 0>>
  ELSE LET s == 2 * Precision + 1
           n == Abs(a[1]) * (2 ^ s)
           q == n \div Abs(b[1])
           r == n % Abs(b[1])
       IN Round(Sign(a[1]) * Sign(b[1]) * (2 * q + (IF r = 0 THEN 0 ELSE 1)),
                a[2] - b[2] - s - 1)

FromInt(n) == Round(n, 0)

IsZero(a) == a[1] = 0

\* a < b, a <= b on floats: the sign of the difference
fless(a, b) == fsub(a, b)[1] < 0

fleq(a, b) == fsub(a, b)[1] <= 0

\* None
None == <<>>


---------------------------------------------------------------------------
(* Strings are sequences of one-character strings *)

RECURSIVE RemoveSpaces(_)
\* str.replace(' ', '')
RemoveSpaces(s) ==
  IF s = <<>> THEN <<>>
  ELSE IF Head(s) = " " THEN RemoveSpaces(Tail(s))
  ELSE <<Head(s)>> \o RemoveSpaces(Tail(s))

RECURSIVE LStrip(_)
LStrip(s) == IF s # <<>> /\ Head(s) = " " THEN LStrip(Tail(s)) ELSE s

RECURSIVE RStrip(_)
RStrip(s) ==
  IF s # <<>> /\ s[Len(s)] = " " THEN RStrip(SubSeq(s, 1, Len(s) - 1)) ELSE s

\* str.strip()
Strip(s) == RStrip(LStrip(s))

RECURSIVE multi_replace(_)
\* multi_replace(string, {'**': '', '*': '-', '(': '', ')': ''}): one left-to-right
\* pass, the longer pattern '**' tried before '*'
multi_replace(s) ==
  IF s = <<>> THEN <<>>
  ELSE IF Len(s) >= 2 /\ s[1] = "*" /\ s[2] = "*" THEN multi_replace(SubSeq(s, 3, Len(s)))
  ELSE IF s[1] = "*" THEN <<"-">> \o multi_replace(Tail(s))
  ELSE IF s[1] \in {"(", ")"} THEN multi_replace(Tail(s))
  ELSE <<s[1]>> \o multi_replace(Tail(s))

---------------------------------------------------------------------------
(* z_units/config.py *)

\* constant.ATM, in Pa
ATM == FromInt(101325)

config_init ==
  [local_atmospheric_pressure |-> ATM, standard_temperature |-> FromInt(20)]

\* the getters, reading the configuration cfg in force at the call
get_local_atmospheric_pressure(cfg) == cfg.local_atmospheric_pressure

get_standard_temperature(cfg) == cfg.standard_temperature

---------------------------------------------------------------------------
(* z_units/environment.py: Environment *)

\* float('nan'): not a number, every comparison with it is false
nan == <<"nan">>

\* a faulty reset, which leaves the standard pressure as it is
reset_keeping_standard_pressure(self) ==
  [self EXCEPT !._atmospheric_pressure = ATM, !._standard_temperature = FromRatio(5863, 20)]

\* Environment.reset
Environment_reset(self) ==
  [_atmospheric_pressure |-> ATM, _standard_temperature |-> FromRatio(5863, 20),
   _standard_pressure |-> ATM]

\* Environment.__init__: self.reset()
Environment___init__ ==
  Environment_reset([_atmospheric_pressure |-> nan, _standard_temperature |-> nan,
                     _standard_pressure |-> nan])

\* value <= 0 for a float or an int
le_zero(value) == value # nan /\ value[1] <= 0

\* the setters of atmospheric_pressure, standard_temperature and
\* standard_pressure: field is the attribute written, value.t tells a number
\* ("num"), float('nan') ("nan") and a str ("str", for which <= raises)
Environment_setter(self, field, value) ==
  IF value.t = "str" THEN [exc |-> "TypeError", env |-> self]
  ELSE IF value.t = "num" /\ le_zero(value.n) THEN [exc |-> "ValueError", env |-> self]
  ELSE [exc |-> "",
        env |-> [self EXCEPT ![field] = IF value.t = "nan" THEN nan ELSE value.n]]

\* Environment.set_stp(temperature=..., pressure=...): two assignments, the
\* second not made when the first raises
Environment_set_stp(self, temperature, pressure) ==
  IF Environment_setter(self, "_standard_temperature", temperature).exc # ""
    THEN Environment_setter(self, "_standard_temperature", temperature)
    ELSE Environment_setter(Environment_setter(self, "_standard_temperature", temperature).env,
                            "_standard_pressure", pressure)

---------------------------------------------------------------------------
(* z_unit/unit.py: Unit *)

\* a factor or offset: a number, or a function called at every conversion
Fixed(f) == [fn |-> "", num |-> f]

Callable(name) == [fn |-> name, num |-> <<0, 0>>]

callable(c) == c.fn # ""

\* normal_cubic_meter.factor: 1 / 22.414
normal_cubic_meter_factor == fdiv(FromInt(1), FromRatio(22414, 1000))

\* hour.factor: 60 * (60 * 1)
hour_factor == fmul(FromInt(60), fmul(FromInt(60), FromInt(1)))

\* T_0C = kelvin.from_base_unit(0): (0 - -273.15) / 1
T_0C == fdiv(fsub(<<0, 0>>, FromRatio(-5463, 20)), FromInt(1))

\* the lambda of standard_cubic_meter, z_units:
\* normal_cubic_meter.factor * 273.15 / (273.15 + get_standard_temperature())
standard_cubic_meter_factor(cfg) ==
  fdiv(fmul(normal_cubic_meter_factor, FromRatio(5463, 20)),
       fadd(FromRatio(5463, 20), get_standard_temperature(cfg)))

\* the lambda of standard_cubic_meter_per_hour, z_unit:
\* normal_cubic_meter.factor * T_0C / (T_0C + get_standard_temperature()) / hour.factor
standard_cubic_meter_per_hour_factor(cfg) ==
  fdiv(fdiv(fmul(normal_cubic_meter_factor, T_0C),
            fadd(T_0C, get_standard_temperature(cfg))),
       hour_factor)

Call(name, cfg) ==
  CASE name = "get_local_atmospheric_pressure" -> get_local_atmospheric_pressure(cfg)
    [] name = "get_standard_temperature" -> get_standard_temperature(cfg)
    [] name = "standard_cubic_meter" -> standard_cubic_meter_factor(cfg)
    [] name = "standard_cubic_meter_per_hour" -> standard_cubic_meter_per_hour_factor(cfg)

\* Unit.factor
Unit_factor(u, cfg) ==
  IF callable(u._factor) THEN Call(u._factor.fn, cfg) ELSE u._factor.num

\* a faulty offset, which shifts a fixed offset by the departure of the local
\* atmospheric pressure from the standard atmosphere
offset_following_atmosphere(u, cfg) ==
  IF callable(u._offset) THEN Call(u._offset.fn, cfg)
  ELSE fadd(u._offset.num, fsub(get_local_atmospheric_pressure(cfg), ATM))

\* Unit.offset
Unit_offset(u, cfg) ==
  IF callable(u._offset) THEN Call(u._offset.fn, cfg) ELSE u._offset.num

\* Unit.symbol_quick_style
Unit_symbol_quick_style(u) ==
  IF u._symbol # <<>> THEN multi_replace(u._symbol) ELSE u._symbol

\* Unit.symbol, also str(unit)
Unit_symbol(u) == Unit_symbol_quick_style(u)

\* the factor == 0 check that ends Unit.__init__ (a callable factor is not 0)
Unit_checked(u) ==
  [exc |-> IF ~callable(u._factor) /\ IsZero(u._factor.num) THEN "ValueError" ELSE "",
   unit |-> u]

\* Unit.__init__ of z_unit: id names the Python object (units are compared by
\* identity); defined_by is <<>> or <<unit>>; cfg is the configuration in force
Unit___init__(id, symbol, defined_by, factor, offset, isbase, cfg) ==
  Unit_checked(
    [id |-> id, _symbol |-> RemoveSpaces(symbol),
     _factor |-> IF defined_by # <<>> THEN Fixed(Unit_factor(defined_by[1], cfg)) ELSE factor,
     _offset |-> offset, BaseUnit |-> isbase])

One == FromInt(1)

Zero == <<0, 0>>

\* a catalog unit: Unit(symbol, defined_by=..., factor=..., offset=...) evaluated
\* when the module is imported, under the initial configuration
Unit(id, symbol, defined_by, factor, offset) ==
  Unit___init__(id, symbol, defined_by, factor, offset, FALSE, config_init).unit

\* BaseUnit.__init__: Unit.__init__(symbol), factor 1 and offset 0
BaseUnit(id, symbol) ==
  Unit___init__(id, symbol, <<>>, Fixed(One), Fixed(Zero), TRUE, config_init).unit

\* Unit.__rmul__: number * unit
Unit___rmul__(self, other, cfg) ==
  Unit___init__("dummy", <<"d", "u", "m", "m", "y">>, <<>>,
                Fixed(fmul(other, Unit_factor(self, cfg))), Fixed(Zero), FALSE, cfg).unit

\* Unit.to_base_unit
to_base_unit(u, value, cfg) ==
  fadd(fmul(Unit_factor(u, cfg), value), Unit_offset(u, cfg))

\* a faulty from_base_unit, which forgets the offset: value / factor
from_base_unit_unshifted(u, value, cfg) == fdiv(value, Unit_factor(u, cfg))

\* Unit.from_base_unit (a zero factor raises ZeroDivisionError in the caller)
from_base_unit(u, value, cfg) ==
  fdiv(fsub(value, Unit_offset(u, cfg)), Unit_factor(u, cfg))

---------------------------------------------------------------------------
(* z_unit/unit.py: the catalog (the units the model uses) *)

meter == BaseUnit("meter", <<"m">>)

centimeter == Unit("centimeter", <<"c", "m">>, <<Unit___rmul__(meter, FromRatio(1, 100), config_init)>>, Fixed(One), Fixed(Zero))

celsius == BaseUnit("celsius", <<"C">>)

kelvin == Unit("kelvin", <<"K">>, <<>>, Fixed(One), Fixed(FromRatio(-5463, 20)))

pascal == BaseUnit("pascal", <<"P", "a">>)

kilopascal == Unit("kilopascal", <<"k", "P", "a">>, <<Unit___rmul__(pascal, FromInt(1000), config_init)>>, Fixed(One), Fixed(Zero))

kilopascal_gauge ==
  Unit("kilopascal_gauge", <<"k", "P", "a", "g">>, <<>>, Fixed(Unit_factor(kilopascal, config_init)),
       Callable("get_local_atmospheric_pressure"))

\* Unit('bar', defined_by=1e5 * pascal)
bar == Unit("bar", <<"b", "a", "r">>, <<Unit___rmul__(pascal, FromInt(100000), config_init)>>, Fixed(One), Fixed(Zero))

bar_gauge ==
  Unit("bar_gauge", <<"b", "a", "r", "g">>, <<>>, Fixed(Unit_factor(bar, config_init)),
       Callable("get_local_atmospheric_pressure"))

delta_celsius == BaseUnit("delta_celsius", <<"C">>)

delta_kelvin == Unit("delta_kelvin", <<"K">>, <<>>, Fixed(One), Fixed(Zero))

kilomole_per_second == BaseUnit("kilomole_per_second", <<"k", "m", "o", "l", "/", "s">>)

\* Unit('Nm**3/h', defined_by=normal_cubic_meter / hour)
normal_cubic_meter_per_hour ==
  Unit("normal_cubic_meter_per_hour", <<"N", "m", "*", "*", "3", "/", "h">>, <<>>,
       Fixed(fdiv(normal_cubic_meter_factor, hour_factor)), Fixed(Zero))

\* Unit('Sm**3/h', factor=lambda: ...)
standard_cubic_meter_per_hour ==
  Unit("standard_cubic_meter_per_hour", <<"S", "m", "*", "*", "3", "/", "h">>, <<>>,
       Callable("standard_cubic_meter_per_hour"), Fixed(Zero))

---------------------------------------------------------------------------
(* z_unit/unit_registry.py: the list-built UnitRegistry *)

RECURSIVE symbol_to_unit(_)
\* the loop of UnitRegistry.__init__: a later unit replaces an earlier one of the same symbol
symbol_to_unit(units) ==
  IF units = <<>> THEN <<>>
  ELSE LET n == Len(units)
       IN (Unit_symbol(units[n]) :> units[n]) @@ symbol_to_unit(SubSeq(units, 1, n - 1))

RECURSIVE last_BaseUnit(_)
\* the last BaseUnit instance of the list, <<>> when there is none
last_BaseUnit(units) ==
  IF units = <<>> THEN <<>>
  ELSE IF units[Len(units)].BaseUnit THEN <<units[Len(units)]>>
  ELSE last_BaseUnit(SubSeq(units, 1, Len(units) - 1))

\* the registry UnitRegistry.__init__ leaves, and whether it raised
UnitRegistry_checked(r, found) ==
  [exc |-> IF ~found \/ r._base_unit = <<>> THEN "ValueError" ELSE "", reg |-> r]

\* UnitRegistry.__init__(units, base_unit=None); base_unit is <<>> or <<unit>>
UnitRegistry___init__(units, base_unit) ==
  IF base_unit = <<>>
    THEN UnitRegistry_checked(
           [_base_unit |-> last_BaseUnit(units), _symbol_to_unit |-> symbol_to_unit(units),
            _units |-> units], TRUE)
    ELSE UnitRegistry_checked(
           [_base_unit |-> base_unit, _symbol_to_unit |-> <<>>, _units |-> units],
           \E i \in 1..Len(units) : units[i] = base_unit[1])

\* UnitRegistry.get_unit of z_unit: dict.get and a truth test (a Unit is always true)
z_unit_get_unit(reg, symbol) ==
  IF symbol \in DOMAIN reg._symbol_to_unit
    THEN [exc |-> "", unit |-> <<reg._symbol_to_unit[symbol]>>]
    ELSE [exc |-> "ValueError", unit |-> <<>>]

z_unit_length == UnitRegistry___init__(<<meter, centimeter>>, <<>>).reg

z_unit_temperature == UnitRegistry___init__(<<celsius, kelvin>>, <<>>).reg

z_unit_delta_temperature == UnitRegistry___init__(<<delta_celsius, delta_kelvin>>, <<>>).reg

z_unit_pressure == UnitRegistry___init__(<<pascal, kilopascal_gauge>>, <<>>).reg

z_unit_molar_flow ==
  UnitRegistry___init__(<<kilomole_per_second, normal_cubic_meter_per_hour,
                          standard_cubic_meter_per_hour>>, <<>>).reg

---------------------------------------------------------------------------
(* z_units/unit.py and z_units/unit_registry.py: the register()-built UnitRegistry *)

\* Unit.__init__ of z_units: no check of the factor
z_units_Unit(id, symbol, factor, offset, isbase) ==
  [id |-> id, _symbol |-> RemoveSpaces(symbol), _factor |-> factor,
   _offset |-> offset, BaseUnit |-> isbase]

\* UnitRegistry.__init__(name): _units is the dict in insertion order, backrefs the
\* units whose _registry attribute points at this registry
z_units_UnitRegistry(name) ==
  [_name |-> name, _units |-> <<>>, _base_unit |-> <<>>, backrefs |-> {}]

\* UnitRegistry.symbols
symbols(reg) == [i \in 1..Len(reg._units) |-> reg._units[i].key]

\* UnitRegistry.units
units(reg) == [i \in 1..Len(reg._units) |-> reg._units[i].unit]

\* symbol in self._units
has_key(reg, symbol) == \E i \in 1..Len(reg._units) : reg._units[i].key = symbol

\* a faulty register, which overwrites the entry of a symbol already present
register_overwriting(reg, unit, is_base) ==
  [exc |-> IF is_base /\ reg._base_unit # <<>> THEN "ValueError" ELSE "",
   reg |-> [reg EXCEPT
              !._units = Append(SelectSeq(@, LAMBDA e : e.key # Unit_symbol(unit)),
                                [key |-> Unit_symbol(unit), unit |-> unit]),
              !.backrefs = @ \cup {unit.id},
              !._base_unit = IF is_base /\ reg._base_unit = <<>> THEN <<unit>> ELSE @]]

\* a faulty register, which lets a later is_base call replace the base unit
register_rebasing(reg, unit, is_base) ==
  IF has_key(reg, Unit_symbol(unit))
    THEN [exc |-> "ValueError", reg |-> reg]
    ELSE [exc |-> "",
          reg |-> [reg EXCEPT !._units = Append(@, [key |-> Unit_symbol(unit), unit |-> unit]),
                              !.backrefs = @ \cup {unit.id},
                              !._base_unit = IF is_base THEN <<unit>> ELSE @]]

\* UnitRegistry.register(unit, is_base)
register(reg, unit, is_base) ==
  IF has_key(reg, Unit_symbol(unit))
    THEN [exc |-> "ValueError", reg |-> reg]
    ELSE LET r1 == [reg EXCEPT !._units = Append(@, [key |-> Unit_symbol(unit), unit |-> unit]),
                               !.backrefs = @ \cup {unit.id}]
         IN IF is_base
              THEN IF r1._base_unit # <<>>
                     THEN [exc |-> "ValueError", reg |-> r1]
                     ELSE [exc |-> "", reg |-> [r1 EXCEPT !._base_unit = <<unit>>]]
              ELSE [exc |-> "", reg |-> r1]

\* UnitRegistry.get_unit of z_units
z_units_get_unit(reg, symbol) ==
  IF ~has_key(reg, symbol)
    THEN [exc |-> "ValueError", unit |-> <<>>]
    ELSE [exc |-> "",
          unit |-> <<reg._units[CHOOSE i \in 1..Len(reg._units) : reg._units[i].key = symbol].unit>>]

z_units_meter == z_units_Unit("meter", <<"m">>, Fixed(One), Fixed(Zero), TRUE)

z_units_centimeter == z_units_Unit("centimeter", <<"c", "m">>, Fixed(FromRatio(1, 100)), Fixed(Zero), FALSE)

z_units_celsius == z_units_Unit("celsius", <<"C">>, Fixed(One), Fixed(Zero), TRUE)

z_units_kelvin == z_units_Unit("kelvin", <<"K">>, Fixed(One), Fixed(FromRatio(-5463, 20)), FALSE)

z_units_length ==
  register(register(z_units_UnitRegistry("length"), z_units_meter, TRUE).reg,
           z_units_centimeter, FALSE).reg

z_units_temperature ==
  register(register(z_units_UnitRegistry("temperature"), z_units_celsius, TRUE).reg,
           z_units_kelvin, FALSE).reg

z_units_kilomole_per_second ==
  z_units_Unit("kilomole_per_second", <<"k", "m", "o", "l", "/", "s">>, Fixed(One), Fixed(Zero), TRUE)

\* Unit('Nm**3/h', factor=normal_cubic_meter.factor / hour.factor)
z_units_normal_cubic_meter_per_hour ==
  z_units_Unit("normal_cubic_meter_per_hour", <<"N", "m", "*", "*", "3", "/", "h">>,
               Fixed(fdiv(normal_cubic_meter_factor, hour_factor)), Fixed(Zero), FALSE)

\* Unit('Sm**3', factor=lambda: ...)
z_units_standard_cubic_meter ==
  z_units_Unit("standard_cubic_meter", <<"S", "m", "*", "*", "3">>,
               Callable("standard_cubic_meter"), Fixed(Zero), FALSE)

\* Unit('Sm**3/h', factor=standard_cubic_meter.factor / hour.factor): the factor
\* is the number standard_cubic_meter.factor is when the module is imported
z_units_standard_cubic_meter_per_hour ==
  z_units_Unit("standard_cubic_meter_per_hour", <<"S", "m", "*", "*", "3", "/", "h">>,
               Fixed(fdiv(Unit_factor(z_units_standard_cubic_meter, config_init), hour_factor)),
               Fixed(Zero), FALSE)

z_units_molar_flow ==
  register(register(register(z_units_UnitRegistry("molar_flow"),
                             z_units_kilomole_per_second, TRUE).reg,
                    z_units_normal_cubic_meter_per_hour, FALSE).reg,
           z_units_standard_cubic_meter_per_hour, FALSE).reg

---------------------------------------------------------------------------
(* Quantity: what both packages share *)

\* the registries of z_unit/unit_registry.py and of z_units/unit_registry.py,
\* created when the package is imported
modules ==
  [zunits |-> [Length |-> z_unit_length, Temperature |-> z_unit_temperature,
               DeltaTemperature |-> z_unit_delta_temperature,
               Pressure |-> z_unit_pressure, MolarFlow |-> z_unit_molar_flow],
   z_units |-> [Length |-> z_units_length, Temperature |-> z_units_temperature,
                MolarFlow |-> z_units_molar_flow]]

\* Quantity.get_unit_registry of zunits: getattr(reg, camel_to_snake(cls.__name__))
zunits_get_unit_registry(cls) == unit_registry.zunits[cls]

\* the get_unit_registry methods of the z_units subclasses
z_units_get_unit_registry(cls) == unit_registry.z_units[cls]

\* self.unit_registry.get_unit(symbol)
get_unit(p, cls, symbol) ==
  IF p = "zunits" THEN z_unit_get_unit(zunits_get_unit_registry(cls), symbol)
  ELSE z_units_get_unit(z_units_get_unit_registry(cls), symbol)

\* self.unit_registry.base_unit, <<unit>>
base_unit(p, cls) ==
  IF p = "zunits" THEN zunits_get_unit_registry(cls)._base_unit
  ELSE z_units_get_unit_registry(cls)._base_unit

\* a Quantity object before __init__ has set anything
object(cls) == [cls |-> cls, has_value |-> FALSE, value |-> None, _unit |-> <<>>]

\* the arguments a caller passes for value and unit
ValNone == [t |-> "None", n |-> Zero, s |-> <<>>]

ValNum(f) == [t |-> "num", n |-> f, s |-> <<>>]

ValStr(s) == [t |-> "str", n |-> Zero, s |-> s]

ArgNone == [t |-> "None", s |-> <<>>, u |-> <<>>]

ArgStr(s) == [t |-> "str", s |-> s, u |-> <<>>]

ArgUnit(u) == [t |-> "Unit", s |-> <<>>, u |-> <<u>>]

\* not unit
falsy(arg) == arg.t = "None" \/ (arg.t = "str" /\ arg.s = <<>>)

\* str(unit)
str(arg) ==
  CASE arg.t = "str" -> arg.s
    [] arg.t = "Unit" -> Unit_symbol(arg.u[1])
    [] arg.t = "None" -> <<"N", "o", "n", "e">>

---------------------------------------------------------------------------
(* zunits/quantity.py: Quantity.__init__ parsing a string value *)

Digits == {"0", "1", "2", "3", "4", "5", "6", "7", "8", "9"}

DigitValue(c) ==
  CASE c = "0" -> 0 [] c = "1" -> 1 [] c = "2" -> 2 [] c = "3" -> 3 [] c = "4" -> 4
    [] c = "5" -> 5 [] c = "6" -> 6 [] c = "7" -> 7 [] c = "8" -> 8 [] c = "9" -> 9

RECURSIVE CountDigits(_, _)
\* \d* at position i: how many digits follow
CountDigits(s, i) ==
  IF i <= Len(s) /\ s[i] \in Digits THEN 1 + CountDigits(s, i + 1) ELSE 0

At(s, i, chars) == i <= Len(s) /\ s[i] \in chars

\* the group v of  (?P<v>[+-]?((\d+\.\d*)|(\.\d+)|(\d+))([eE][+-]?\d+)?)(?P<u>.*)
\* matched at the start of s: its length, 0 when the pattern does not match.
\* Every part is greedy and the trailing .* never fails, so the first way found is taken.
re_match_exponent(s, j, k0) ==
  IF At(s, j + 1, {"e", "E"}) /\ CountDigits(s, j + 2 + k0) > 0
    THEN j + 1 + k0 + CountDigits(s, j + 2 + k0)
    ELSE j

re_match_mantissa(s, i0, mant) ==
  IF mant = 0 THEN 0
  ELSE re_match_exponent(s, i0 + mant, IF At(s, i0 + mant + 2, {"+", "-"}) THEN 1 ELSE 0)

re_match_digits(s, i0, n1) ==
  re_match_mantissa(s, i0,
    IF n1 > 0 /\ At(s, i0 + n1 + 1, {"."})
      THEN n1 + 1 + CountDigits(s, i0 + n1 + 2)
    ELSE IF At(s, i0 + 1, {"."}) /\ CountDigits(s, i0 + 2) > 0
      THEN 1 + CountDigits(s, i0 + 2)
    ELSE n1)

re_match_sign(s, i0) == re_match_digits(s, i0, CountDigits(s, i0 + 1))

re_match_v(s) == re_match_sign(s, IF At(s, 1, {"+", "-"}) THEN 1 ELSE 0)

RECURSIVE IntOf(_)
\* the number a run of digits denotes
IntOf(ds) ==
  IF ds = <<>> THEN 0 ELSE 10 * IntOf(SubSeq(ds, 1, Len(ds) - 1)) + DigitValue(ds[Len(ds)])

RECURSIVE IndexOf(_, _, _)
\* the first position >= i of a character of chars in s, 0 when there is none
IndexOf(s, chars, i) ==
  IF i > Len(s) THEN 0 ELSE IF s[i] \in chars THEN i ELSE IndexOf(s, chars, i + 1)

\* float(v) for a string the pattern matched: v is sign, mantissa, exponent.
\* The digits D of the mantissa with k = exponent - (digits after the point)
float_digits(D, k) ==
  IF k >= 0 THEN FromRatio(D * (10 ^ k), 1) ELSE FromRatio(D, 10 ^ (0 - k))

\* the exponent part et, <<>> when there is none
float_exponent(et) ==
  IF et = <<>> THEN 0
  ELSE IF et[1] = "-" THEN 0 - IntOf(Tail(et))
  ELSE IF et[1] = "+" THEN IntOf(Tail(et))
  ELSE IntOf(et)

\* the mantissa m with its point at dpos (0: no point) and the exponent ex
float_mantissa(m, dpos, ex) ==
  IF dpos = 0 THEN float_digits(IntOf(m), ex)
  ELSE float_digits(IntOf(SubSeq(m, 1, dpos - 1) \o SubSeq(m, dpos + 1, Len(m))),
                    ex - (Len(m) - dpos))

\* the unsigned text body with its e at epos (0: no exponent)
float_unsigned(body, epos) ==
  IF epos = 0 THEN float_mantissa(body, IndexOf(body, {"."}, 1), 0)
  ELSE float_mantissa(SubSeq(body, 1, epos - 1), IndexOf(SubSeq(body, 1, epos - 1), {"."}, 1),
                      float_exponent(SubSeq(body, epos + 1, Len(body))))

float_signed(neg, body) ==
  IF neg THEN fneg(float_unsigned(body, IndexOf(body, {"e", "E"}, 1)))
  ELSE float_unsigned(body, IndexOf(body, {"e", "E"}, 1))

float(v) == float_signed(At(v, 1, {"-"}), IF At(v, 1, {"+", "-"}) THEN Tail(v) ELSE v)

---------------------------------------------------------------------------
(* zunits/quantity.py: Quantity *)

\* self._unit = r.unit for the outcome r of get_unit, which may have raised.
\* [exc, obj]: obj is self afterwards
set__unit(self, r) ==
  IF r.exc # "" THEN [exc |-> r.exc, obj |-> self]
  ELSE [exc |-> "", obj |-> [self EXCEPT !._unit = r.unit]]

\* the unit setter: self.unit = value
zunits_unit_setter(self, value) ==
  IF falsy(value)
    THEN [exc |-> "", obj |-> [self EXCEPT !._unit = base_unit("zunits", self.cls)]]
    ELSE set__unit(self, get_unit("zunits", self.cls, str(value)))

\* Quantity.__init__ once the pattern has matched the first n characters of sv
\* (n = 0: no match, and nothing is set)
zunits_Quantity___init___match(cls, sv, n, unit) ==
  IF n > 0
    THEN zunits_unit_setter(
           [object(cls) EXCEPT !.has_value = TRUE, !.value = float(SubSeq(sv, 1, n))],
           IF falsy(unit) THEN ArgStr(Strip(SubSeq(sv, n + 1, Len(sv)))) ELSE unit)
    ELSE [exc |-> "", obj |-> object(cls)]

\* Quantity.__init__ for a str value, sv = value.strip()
zunits_Quantity___init___str(cls, sv, unit) ==
  zunits_Quantity___init___match(cls, sv, re_match_v(sv), unit)

\* Quantity.__init__(value, unit).  [exc, obj]: obj is the new object when exc = ""
zunits_Quantity___init__(cls, value, unit) ==
  IF value.t = "str"
    THEN zunits_Quantity___init___str(cls, Strip(value.s), unit)
    ELSE zunits_unit_setter(
           [object(cls) EXCEPT !.has_value = TRUE,
                               !.value = IF value.t = "None" THEN None ELSE value.n],
           unit)

\* what a call returns: nothing (it raised), None, the receiver itself, or a new object
Raise(exc, cls) == [exc |-> exc, t |-> "raise", obj |-> object(cls), b |-> FALSE]

ReturnNone(cls) == [exc |-> "", t |-> "None", obj |-> object(cls), b |-> FALSE]

ReturnSelf(self) == [exc |-> "", t |-> "self", obj |-> self, b |-> FALSE]

ReturnNew(r) ==
  IF r.exc # "" THEN Raise(r.exc, r.obj.cls)
  ELSE [exc |-> "", t |-> "new", obj |-> r.obj, b |-> FALSE]

ReturnBool(b, cls) == [exc |-> "", t |-> "bool", obj |-> object(cls), b |-> b]

\* what get_unit returns: the unit found, <<unit>>, or nothing (it raised)
ReturnUnit(r) ==
  [exc |-> r.exc, t |-> IF r.exc # "" THEN "raise" ELSE "unit", obj |-> object(""),
   b |-> FALSE, unit |-> r.unit]

\* a faulty to, which rebinds the unit and forgets to convert the value
to_unit_unconverted(self, r, cfg) ==
  IF r.exc # "" THEN Raise(r.exc, self.cls)
  ELSE ReturnNew(zunits_Quantity___init__(self.cls, ValNum(self.value), ArgUnit(r.unit[1])))

\* Quantity.to from the outcome r of get_unit on
zunits_Quantity_to_unit(self, r, cfg) ==
  IF r.exc # "" THEN Raise(r.exc, self.cls)
  ELSE IF self._unit = <<>> THEN Raise("AttributeError", self.cls)
  ELSE IF r.unit[1] = self._unit[1] THEN ReturnSelf(self)
  ELSE IF IsZero(Unit_factor(r.unit[1], cfg)) THEN Raise("ZeroDivisionError", self.cls)
  ELSE ReturnNew(zunits_Quantity___init__(
         self.cls,
         ValNum(from_base_unit(r.unit[1], to_base_unit(self._unit[1], self.value, cfg), cfg)),
         ArgUnit(r.unit[1])))

\* Quantity.to(unit) under the configuration cfg
zunits_Quantity_to(self, unit, cfg) ==
  IF ~self.has_value THEN Raise("AttributeError", self.cls)
  ELSE IF self.value = None THEN ReturnNone(self.cls)
  ELSE zunits_Quantity_to_unit(self, get_unit("zunits", self.cls, str(unit)), cfg)

\* Quantity.to_base()
zunits_Quantity_to_base(self, cfg) ==
  zunits_Quantity_to(self, ArgUnit(base_unit("zunits", self.cls)[1]), cfg)

\* isinstance(other, self.__class__): the kinds are sibling subclasses of Quantity
isinstance(other, self) == other.cls = self.cls

\* l.value <op> r.value for the outcomes l, r of the two to_base() calls, self's
\* made first; to_base() of a None value is None, which has no attribute value
compare_values(l, r, cls, op) ==
  IF l.exc # "" THEN Raise(l.exc, cls)
  ELSE IF l.t = "None" THEN Raise("AttributeError", cls)
  ELSE IF r.exc # "" THEN Raise(r.exc, cls)
  ELSE IF r.t = "None" THEN Raise("AttributeError", cls)
  ELSE ReturnBool(CASE op = "==" -> l.obj.value = r.obj.value
                    [] op = ">" -> fless(r.obj.value, l.obj.value)
                    [] op = ">=" -> fleq(r.obj.value, l.obj.value),
                  cls)

\* self.to_base().value <op> other.to_base().value
compare_base(self, other, cfg, op) ==
  compare_values(zunits_Quantity_to_base(self, cfg), zunits_Quantity_to_base(other, cfg),
                 self.cls, op)

\* a faulty __eq__, which compares the values as they are, whatever the units
eq_of_values(self, other, cfg) ==
  ReturnBool(isinstance(other, self) /\ self.value = other.value, self.cls)

\* a faulty __gt__, which compares the values as they are, whatever the units
gt_of_values(self, other, cfg) ==
  IF ~isinstance(other, self) THEN ReturnNone(self.cls)
  ELSE IF self.value = None \/ other.value = None THEN Raise("TypeError", self.cls)
  ELSE ReturnBool(fless(other.value, self.value), self.cls)

\* Quantity.__eq__
Quantity___eq__(self, other, cfg) ==
  IF isinstance(other, self) THEN compare_base(self, other, cfg, "==")
  ELSE ReturnBool(FALSE, self.cls)

\* Quantity.__gt__: falls off the end, returning None, for another kind
Quantity___gt__(self, other, cfg) ==
  IF isinstance(other, self) THEN compare_base(self, other, cfg, ">")
  ELSE ReturnNone(self.cls)

\* Quantity.__ge__
Quantity___ge__(self, other, cfg) ==
  IF isinstance(other, self) THEN compare_base(self, other, cfg, ">=")
  ELSE ReturnNone(self.cls)

\* self.__eq__(other), self.__gt__(other) or self.__ge__(other)
rich_compare(method, self, other, cfg) ==
  CASE method = "__eq__" -> Quantity___eq__(self, other, cfg)
    [] method = "__gt__" -> Quantity___gt__(self, other, cfg)
    [] method = "__ge__" -> Quantity___ge__(self, other, cfg)

\* the interpreter's evaluation of  l <op> r  on two Quantity objects: Quantity
\* defines no __lt__ or __le__, so object's returns NotImplemented and the
\* reflected method of the right operand is called: r.__gt__(l), r.__ge__(l)
compare(op, l, r, cfg) ==
  rich_compare(CASE op = "==" -> "__eq__"
                 [] op \in {">", "<"} -> "__gt__"
                 [] op \in {">=", "<="} -> "__ge__",
               IF op \in {"<", "<="} THEN r ELSE l,
               IF op \in {"<", "<="} THEN l ELSE r,
               cfg)

---------------------------------------------------------------------------
(* z_units/quantity.py: Quantity *)

\* Quantity.__init__(value, unit)
z_units_Quantity___init__(cls, value, unit) ==
  IF unit.t = "None"
    THEN [exc |-> "",
          obj |-> [object(cls) EXCEPT !.has_value = TRUE,
                                      !.value = IF value.t = "None" THEN None ELSE value.n,
                                      !._unit = base_unit("z_units", cls)]]
    ELSE set__unit([object(cls) EXCEPT !.has_value = TRUE,
                                       !.value = IF value.t = "None" THEN None ELSE value.n],
                   get_unit("z_units", cls, str(unit)))

\* Quantity.to from the outcome r of get_unit on
z_units_Quantity_to_unit(self, unit, r, cfg) ==
  IF r.exc # "" THEN Raise(r.exc, self.cls)
  ELSE IF IsZero(Unit_factor(r.unit[1], cfg)) THEN Raise("ZeroDivisionError", self.cls)
  ELSE ReturnNew(z_units_Quantity___init__(
         self.cls,
         ValNum(from_base_unit(r.unit[1], to_base_unit(self._unit[1], self.value, cfg), cfg)),
         unit))

\* Quantity.to(unit)
z_units_Quantity_to(self, unit, cfg) ==
  IF self.value = None THEN ReturnNone(self.cls)
  ELSE z_units_Quantity_to_unit(self, unit, get_unit("z_units", self.cls, str(unit)), cfg)

\* Quantity.to_base(): self.to(self.base_unit.symbol)
z_units_Quantity_to_base(self, cfg) ==
  z_units_Quantity_to(self, ArgStr(Unit_symbol(base_unit("z_units", self.cls)[1])), cfg)

---------------------------------------------------------------------------
(* the calls of the program, by the package it imports *)

Quantity___init__(p, cls, value, unit) ==
  IF p = "zunits" THEN zunits_Quantity___init__(cls, value, unit)
  ELSE z_units_Quantity___init__(cls, value, unit)

\* a faulty to, which looks the target up before it tests the value
to_looking_up_first(p, self, unit, cfg) ==
  IF get_unit(p, self.cls, str(unit)).exc # ""
    THEN Raise(get_unit(p, self.cls, str(unit)).exc, self.cls)
  ELSE IF p = "zunits" THEN zunits_Quantity_to(self, unit, cfg)
  ELSE z_units_Quantity_to(self, unit, cfg)

Quantity_to(p, self, unit, cfg) ==
  IF p = "zunits" THEN zunits_Quantity_to(self, unit, cfg)
  ELSE z_units_Quantity_to(self, unit, cfg)

Quantity_to_base(p, self, cfg) ==
  IF p = "zunits" THEN zunits_Quantity_to_base(self, cfg)
  ELSE z_units_Quantity_to_base(self, cfg)

\* Quantity.__mul__(other), other a number: the same code in both packages
Quantity___mul__(p, self, other) ==
  IF ~self.has_value THEN Raise("AttributeError", self.cls)
  ELSE IF self.value = None THEN Raise("TypeError", self.cls)
  ELSE ReturnNew(Quantity___init__(p, self.cls, ValNum(fmul(self.value, other)),
                                   ArgUnit(self._unit[1])))

---------------------------------------------------------------------------
(* The inputs the program draws its arguments from *)

Names == {"a", "b"}

\* the programs: the package imported and the kinds of Quantity it works with
Programs ==
  {<<"zunits", {"Length", "Temperature"}>>, <<"zunits", {"Pressure"}>>,
   <<"z_units", {"Length", "Temperature"}>>}

NumberInputs == {FromInt(1), FromInt(100)}

\* the numbers a Quantity is multiplied by
MultiplierInputs == {FromInt(3)}

ValueInputs == {ValNone} \cup {ValNum(f) : f \in NumberInputs}

\* ' 1e2 cm', '1', 'abc'
StringInputs ==
  {<<" ", "1", "e", "2", " ", "c", "m">>, <<"1">>, <<"a", "b", "c">>}

\* the symbols of a kind's family in the catalog
FamilySymbols(p, cls) ==
  IF p = "zunits" THEN DOMAIN zunits_get_unit_registry(cls)._symbol_to_unit
  ELSE {z_units_get_unit_registry(cls)._units[i].key :
          i \in 1..Len(z_units_get_unit_registry(cls)._units)}

\* a symbol of no family
xyz == <<"x", "y", "z">>

UnitInputs(p, cls) ==
  {ArgNone, ArgStr(<<>>), ArgStr(xyz)} \cup {ArgStr(sym) : sym \in FamilySymbols(p, cls)}

\* the second operand, b, is one of a unit of the family
OperandUnitInputs(p, cls) == {ArgStr(sym) : sym \in FamilySymbols(p, cls)}

PressureInputs == {ATM, FromInt(50000)}

\* standard temperatures, in degC
TemperatureInputs == {Zero, FromInt(20)}

---------------------------------------------------------------------------
(* The program: calls on the Quantity objects held in a and b *)

\* no call made yet
NoResult == [exc |-> "", t |-> "", obj |-> object(""), b |-> FALSE]

\* op: the call; a, b: the variables of its operands; q: the receiver as it was
\* before the call; cls, val, unit, num: its arguments; r: how it ended;
\* ncalls: the __mul__/__rmul__ calls a `*` took
NoCall ==
  [op |-> "", a |-> "", b |-> "", q |-> object(""), cls |-> "", val |-> ValNone,
   unit |-> ArgNone, num |-> Zero, r |-> NoResult, ncalls |-> 0]

idle == stack = <<>>

\* n = Cls(value, unit): a raising constructor leaves n as it was
Constructed(n, cls, value, unit, r) ==
  /\ x' = IF r.exc = "" THEN (n :> r.obj) @@ x ELSE x
  /\ last' = [NoCall EXCEPT !.op = "__init__", !.a = IF r.exc = "" THEN n ELSE "",
                            !.cls = cls, !.val = value, !.unit = unit,
                            !.r = ReturnNew(r)]

Construct(n, cls, value, unit) ==
  /\ idle
  /\ Constructed(n, cls, value, unit, Quantity___init__(pkg, cls, value, unit))
  /\ UNCHANGED <<unit_registry, env, pkg, classes, config, stack, ncalls, registry, trip>>

\* a faulty to, which puts the default configuration back when it has converted
to_restoring_configuration(n, unit) ==
  /\ idle
  /\ n \in DOMAIN x
  /\ last' = [NoCall EXCEPT !.op = "to", !.a = n, !.q = x[n], !.unit = unit,
                            !.r = Quantity_to(pkg, x[n], unit, config)]
  /\ config' = config_init
  /\ UNCHANGED <<unit_registry, env, pkg, classes, x, stack, ncalls, registry, trip>>

\* x[n].to(unit)
To(n, unit) ==
  /\ idle
  /\ n \in DOMAIN x
  /\ last' = [NoCall EXCEPT !.op = "to", !.a = n, !.q = x[n], !.unit = unit,
                            !.r = Quantity_to(pkg, x[n], unit, config)]
  /\ UNCHANGED <<unit_registry, env, pkg, classes, config, x, stack, ncalls, registry, trip>>

\* x[n].to_base()
ToBase(n) ==
  /\ idle
  /\ n \in DOMAIN x
  /\ last' = [NoCall EXCEPT !.op = "to_base", !.a = n, !.q = x[n],
                            !.r = Quantity_to_base(pkg, x[n], config)]
  /\ UNCHANGED <<unit_registry, env, pkg, classes, config, x, stack, ncalls, registry, trip>>

\* x[n] and last after the setter has ended as r
UnitSet(n, unit, r) ==
  /\ x' = [x EXCEPT ![n] = r.obj]
  /\ last' = [NoCall EXCEPT !.op = "unit=", !.a = n, !.q = x[n], !.unit = unit,
                            !.r = IF r.exc # "" THEN Raise(r.exc, x[n].cls)
                                  ELSE ReturnNone(x[n].cls)]

\* x[n].unit = unit: the setter of zunits (z_units declares no setter)
SetUnit(n, unit) ==
  /\ idle
  /\ pkg = "zunits"
  /\ n \in DOMAIN x
  /\ UnitSet(n, unit, zunits_unit_setter(x[n], unit))
  /\ UNCHANGED <<unit_registry, env, pkg, classes, config, stack, ncalls, registry, trip>>

\* x[l] <op> x[r] in zunits
Compare(op, l, r) ==
  /\ idle
  /\ pkg = "zunits"
  /\ l \in DOMAIN x /\ r \in DOMAIN x
  /\ last' = [NoCall EXCEPT !.op = op, !.a = l, !.b = r,
                            !.r = compare(op, x[l], x[r], config)]
  /\ UNCHANGED <<unit_registry, env, pkg, classes, config, x, stack, ncalls, registry, trip>>

\* z_units/config.py set_local_atmospheric_pressure; isnumber says whether the
\* argument is an int or a float
set_local_atmospheric_pressure(pressure, isnumber) ==
  /\ idle
  /\ "Pressure" \in classes
  /\ IF isnumber
       THEN /\ config' = [config EXCEPT !.local_atmospheric_pressure = pressure]
            /\ last' = [NoCall EXCEPT !.op = "set_local_atmospheric_pressure",
                                      !.num = pressure, !.r = ReturnNone("")]
       ELSE /\ config' = config
            /\ last' = [NoCall EXCEPT !.op = "set_local_atmospheric_pressure",
                                      !.r = Raise("ValueError", "")]
  /\ UNCHANGED <<unit_registry, env, pkg, classes, x, stack, ncalls, registry, trip>>

\* z_units/config.py set_standard_temperature; isnumber says whether the
\* argument is an int or a float
set_standard_temperature(temperature, isnumber) ==
  /\ idle
  /\ "MolarFlow" \in classes
  /\ IF isnumber
       THEN /\ config' = [config EXCEPT !.standard_temperature = temperature]
            /\ last' = [NoCall EXCEPT !.op = "set_standard_temperature",
                                      !.num = temperature, !.r = ReturnNone("")]
       ELSE /\ config' = config
            /\ last' = [NoCall EXCEPT !.op = "set_standard_temperature",
                                      !.r = Raise("ValueError", "")]
  /\ UNCHANGED <<unit_registry, env, pkg, classes, x, stack, ncalls, registry, trip>>

---------------------------------------------------------------------------
(* l * r, evaluated by the interpreter step by step.                       *)
(* Binary `*`: l.__mul__(r) is called; when it returns NotImplemented and  *)
(* the operands are of different types, r.__rmul__(l) is called; when that *)
(* returns NotImplemented too, TypeError.  Quantity.__rmul__ evaluates     *)
(* self * other, a nested binary `*`.                                      *)

\* an operand: the object in a variable, or a number
Q(n) == [t |-> "q", name |-> n, n |-> Zero]

N(f) == [t |-> "n", name |-> "", n |-> f]

\* type(l) is type(r)
same_type(l, r) ==
  \/ l.t = "n" /\ r.t = "n"
  \/ l.t = "q" /\ r.t = "q" /\ x[l.name].cls = x[r.name].cls

\* the outermost expression is over: its value or its exception
Finish(r) ==
  /\ last' = [last EXCEPT !.r = r, !.ncalls = ncalls + 1]
  /\ stack' = <<>>
  /\ ncalls' = 0

Top == stack[Len(stack)]

\* the program evaluates l * r
MulBegin(l, r) ==
  /\ idle
  /\ l.t = "q" \/ r.t = "q"
  /\ l.t = "q" => l.name \in DOMAIN x
  /\ r.t = "q" => r.name \in DOMAIN x
  /\ stack' = <<[l |-> l, r |-> r, pc |-> "__mul__"]>>
  /\ ncalls' = 0
  /\ last' = [NoCall EXCEPT !.op = "*", !.a = l.name, !.b = r.name,
                            !.q = IF l.t = "q" THEN x[l.name] ELSE x[r.name],
                            !.num = IF l.t = "n" THEN l.n ELSE r.n]
  /\ UNCHANGED <<unit_registry, env, pkg, classes, config, x, registry, trip>>

\* the left operand's __mul__: Quantity.__mul__, or a number's (NotImplemented
\* for a Quantity)
call___mul__ ==
  /\ ~idle
  /\ Top.pc = "__mul__"
  /\ IF Top.l.t = "q" /\ Top.r.t = "n"
       THEN Finish(Quantity___mul__(pkg, x[Top.l.name], Top.r.n))
     ELSE IF same_type(Top.l, Top.r)
       THEN Finish(Raise("TypeError", x[Top.l.name].cls))
     ELSE /\ stack' = [stack EXCEPT ![Len(stack)].pc = "__rmul__"]
          /\ ncalls' = IF Top.l.t = "q" THEN ncalls + 1 ELSE ncalls
          /\ UNCHANGED last
  /\ UNCHANGED <<unit_registry, env, pkg, classes, config, x, registry, trip>>

\* the right operand's __rmul__: Quantity.__rmul__ returns self * other
call___rmul__ ==
  /\ ~idle
  /\ Top.pc = "__rmul__"
  /\ IF Top.r.t = "n"
       THEN Finish(Raise("TypeError", x[Top.l.name].cls))
     ELSE IF Len(stack) >= RecursionLimit
       THEN Finish(Raise("RecursionError", x[Top.r.name].cls))
     ELSE /\ stack' = Append(stack, [l |-> Top.r, r |-> Top.l, pc |-> "__mul__"])
          /\ ncalls' = ncalls + 1
          /\ UNCHANGED last
  /\ UNCHANGED <<unit_registry, env, pkg, classes, config, x, registry, trip>>

---------------------------------------------------------------------------
(* z_unit/__init__.py: convert *)

\* quantity_registry: the subclasses of Quantity in the order of their
\* definition, each with the symbols of its registry
quantity_registry == <<"Length", "Temperature", "DeltaTemperature", "Pressure", "MolarFlow">>

\* {from_unit, to_unit}.issubset(symbols) for the kind cls
issubset(from_unit, to_unit, cls) ==
  {from_unit, to_unit} \subseteq DOMAIN zunits_get_unit_registry(cls)._symbol_to_unit

\* Q(value, from_unit).to(to_unit), Q the class cls
convert_by(cls, value, from_unit, to_unit, cfg) ==
  IF zunits_Quantity___init__(cls, value, ArgStr(from_unit)).exc # ""
    THEN Raise(zunits_Quantity___init__(cls, value, ArgStr(from_unit)).exc, cls)
    ELSE zunits_Quantity_to(zunits_Quantity___init__(cls, value, ArgStr(from_unit)).obj,
                            ArgStr(to_unit), cfg)

\* a faulty convert, which goes on after a match: the last kind matched wins
convert_by_last_match(value, from_unit, to_unit, cfg) ==
  IF \A i \in 1..Len(quantity_registry) : ~issubset(from_unit, to_unit, quantity_registry[i])
    THEN Raise("ValueError", "")
    ELSE convert_by(quantity_registry[CHOOSE i \in 1..Len(quantity_registry) :
                                        /\ issubset(from_unit, to_unit, quantity_registry[i])
                                        /\ \A j \in (i + 1)..Len(quantity_registry) :
                                             ~issubset(from_unit, to_unit, quantity_registry[j])],
                    value, from_unit, to_unit, cfg)

\* convert(value, from_unit, to_unit): the loop returns at the first match
convert(value, from_unit, to_unit, cfg) ==
  IF \A i \in 1..Len(quantity_registry) : ~issubset(from_unit, to_unit, quantity_registry[i])
    THEN Raise("ValueError", "")
    ELSE convert_by(quantity_registry[CHOOSE i \in 1..Len(quantity_registry) :
                                        /\ issubset(from_unit, to_unit, quantity_registry[i])
                                        /\ \A j \in 1..(i - 1) :
                                             ~issubset(from_unit, to_unit, quantity_registry[j])],
                    value, from_unit, to_unit, cfg)

\* convert(value, from_unit, to_unit)
Convert(value, from_unit, to_unit) ==
  /\ last' = [env |-> env] @@
             [NoCall EXCEPT !.op = "convert", !.val = value, !.unit = ArgStr(to_unit),
                            !.q = [object("") EXCEPT !._unit = <<from_unit>>],
                            !.r = convert(value, from_unit, to_unit, config)]
  /\ UNCHANGED <<unit_registry, env, pkg, classes, config, x, stack, ncalls, registry, trip>>

---------------------------------------------------------------------------
(* The specification of the Quantity program *)

\* no conversion under way
NoTrip == [unit |-> meter, start |-> Zero, path |-> <<>>]

Init ==
  /\ \E program \in Programs : pkg = program[1] /\ classes = program[2]
  /\ unit_registry = modules
  /\ env = Environment___init__
  /\ config = config_init
  /\ x = <<>>
  /\ last = NoCall
  /\ stack = <<>>
  /\ ncalls = 0
  /\ registry = z_units_UnitRegistry("length")
  /\ trip = NoTrip

Next ==
  \/ \E cls \in classes : \E value \in ValueInputs, unit \in UnitInputs(pkg, cls) :
       Construct("a", cls, value, unit)
  \/ \E cls \in classes : \E s \in StringInputs, unit \in {ArgNone, ArgStr(xyz)} :
       pkg = "zunits" /\ Construct("a", cls, ValStr(s), unit)
  \/ \E cls \in classes : \E unit \in OperandUnitInputs(pkg, cls) :
       Construct("b", cls, ValNum(One), unit)
  \/ \E n \in DOMAIN x : \E unit \in UnitInputs(pkg, x[n].cls) : To(n, unit)
  \/ \E n \in Names : ToBase(n)
  \/ \E n \in DOMAIN x : \E unit \in UnitInputs(pkg, x[n].cls) : SetUnit(n, unit)
  \/ \E op \in {"==", ">", ">=", "<", "<="} : \E l \in Names, r \in Names : Compare(op, l, r)
  \/ \E n \in Names, f \in MultiplierInputs : MulBegin(Q(n), N(f)) \/ MulBegin(N(f), Q(n))
  \/ \E l \in Names, r \in Names : MulBegin(Q(l), Q(r))
  \/ call___mul__
  \/ call___rmul__
  \/ \E p \in PressureInputs : set_local_atmospheric_pressure(p, TRUE)
  \/ set_local_atmospheric_pressure(Zero, FALSE)

Spec == Init /\ [][Next]_vars

---------------------------------------------------------------------------
(* The program working with pressures, which calls convert() as well *)

InitShared ==
  /\ Init
  /\ pkg = "zunits"
  /\ classes = {"Pressure"}

NextShared ==
  \/ Next
  \/ \E value \in ValueInputs : \E from_unit \in FamilySymbols(pkg, "Pressure"),
                                     to_unit \in FamilySymbols(pkg, "Pressure") :
       idle /\ Convert(value, from_unit, to_unit)

SpecShared == InitShared /\ [][NextShared]_vars

---------------------------------------------------------------------------
(* Quantity.to of zunits step by step, while another thread sets the         *)
(* configuration.  to() reads the configuration four times: the factor and  *)
(* the offset of its own unit in to_base_unit, the offset and the factor of *)
(* the target in from_base_unit.  Nothing is locked, so the other thread's  *)
(* setter may run between any two of the reads.                             *)

\* to() returns before it converts: no value, the target not found, or the
\* target is the unit of self
to_returns_early(self, unit) ==
  \/ ~self.has_value
  \/ self.value = None
  \/ get_unit("zunits", self.cls, str(unit)).exc # ""
  \/ self._unit = <<>>
  \/ get_unit("zunits", self.cls, str(unit)).unit = self._unit

\* the frame of a to() that converts: the next read, the receiver, the target,
\* what was read and computed so far; seen is the configuration at each read
to_frame(n, self, unit) ==
  [pc |-> "self.factor", a |-> n, self |-> self, arg |-> unit,
   unit |-> get_unit("zunits", self.cls, str(unit)).unit[1],
   factor |-> Zero, ref_value |-> Zero, offset |-> Zero, divisor |-> Zero, seen |-> <<>>]

\* the read at frame.pc, made under the configuration cfg; seen_cfg is the
\* configuration in force
to_read_under(frame, cfg, seen_cfg) ==
  CASE frame.pc = "self.factor" ->
         [frame EXCEPT !.pc = "self.offset", !.seen = Append(@, seen_cfg),
                       !.factor = Unit_factor(frame.self._unit[1], cfg)]
    [] frame.pc = "self.offset" ->
         [frame EXCEPT !.pc = "unit.offset", !.seen = Append(@, seen_cfg),
                       !.ref_value = fadd(fmul(frame.factor, frame.self.value),
                                          Unit_offset(frame.self._unit[1], cfg))]
    [] frame.pc = "unit.offset" ->
         [frame EXCEPT !.pc = "unit.factor", !.seen = Append(@, seen_cfg),
                       !.offset = Unit_offset(frame.unit, cfg)]
    [] frame.pc = "unit.factor" ->
         [frame EXCEPT !.pc = "return", !.seen = Append(@, seen_cfg),
                       !.divisor = Unit_factor(frame.unit, cfg)]

\* a faulty to, which reads the whole configuration once, at its first read
to_read_snapshot(frame, cfg) ==
  to_read_under(frame, IF frame.seen = <<>> THEN cfg ELSE frame.seen[1], cfg)

\* the next read of to(): self.factor * value + self.offset in to_base_unit,
\* then (value - unit.offset) / unit.factor in from_base_unit
to_read(frame, cfg) == to_read_under(frame, cfg, cfg)

\* what to() returns when it has read everything
to_return(frame) ==
  IF IsZero(frame.divisor) THEN Raise("ZeroDivisionError", frame.self.cls)
  ELSE ReturnNew(zunits_Quantity___init__(
         frame.self.cls,
         ValNum(fdiv(fsub(frame.ref_value, frame.offset), frame.divisor)),
         ArgUnit(frame.unit)))

\* the thread of the program calls x[n].to(unit)
ToBegin(n, unit) ==
  /\ idle
  /\ n \in DOMAIN x
  /\ IF to_returns_early(x[n], unit)
       THEN /\ last' = [seen |-> <<>>] @@
                       [NoCall EXCEPT !.op = "to", !.a = n, !.q = x[n], !.unit = unit,
                                      !.r = zunits_Quantity_to(x[n], unit, config)]
            /\ UNCHANGED stack
       ELSE /\ stack' = <<to_frame(n, x[n], unit)>>
            /\ UNCHANGED last
  /\ UNCHANGED <<unit_registry, env, pkg, classes, config, x, ncalls, registry, trip>>

\* the thread of the program makes the next read of the to() under way
ToRead ==
  /\ ~idle
  /\ Top.pc # "return"
  /\ stack' = <<to_read(Top, config)>>
  /\ UNCHANGED <<unit_registry, env, pkg, classes, config, x, last, ncalls, registry, trip>>

\* the to() under way returns
ToReturn ==
  /\ ~idle
  /\ Top.pc = "return"
  /\ stack' = <<>>
  /\ last' = [seen |-> Top.seen] @@
             [NoCall EXCEPT !.op = "to", !.a = Top.a, !.q = Top.self, !.unit = Top.arg,
                            !.r = to_return(Top)]
  /\ UNCHANGED <<unit_registry, env, pkg, classes, config, x, ncalls, registry, trip>>

\* another thread calls set_local_atmospheric_pressure(pressure), at any moment
SetterThread(pressure) ==
  /\ config' = [config EXCEPT !.local_atmospheric_pressure = pressure]
  /\ UNCHANGED <<unit_registry, env, pkg, classes, x, last, stack, ncalls, registry, trip>>

\* the pressures of the program: Pa and the gauge units kPag and barg
pressure_with_gauges ==
  [modules EXCEPT !.zunits.Pressure =
     UnitRegistry___init__(<<pascal, kilopascal_gauge, bar_gauge>>, <<>>).reg]

InitRace ==
  /\ pkg = "zunits"
  /\ classes = {"Pressure"}
  /\ unit_registry = pressure_with_gauges
  /\ env = Environment___init__
  /\ config = config_init
  /\ x = <<>>
  /\ last = NoCall
  /\ stack = <<>>
  /\ ncalls = 0
  /\ registry = z_units_UnitRegistry("length")
  /\ trip = NoTrip

NextRace ==
  \/ \E value \in ValueInputs, unit \in OperandUnitInputs(pkg, "Pressure") :
       Construct("a", "Pressure", value, unit)
  \/ \E unit \in UnitInputs(pkg, "Pressure") : ToBegin("a", unit)
  \/ ToRead
  \/ ToReturn
  \/ \E p \in PressureInputs : SetterThread(p)

SpecRace == InitRace /\ [][NextRace]_vars

---------------------------------------------------------------------------
(* The program converting molar flows while the standard temperature is set *)

InitFlow ==
  /\ \E p \in {"zunits", "z_units"} : pkg = p
  /\ classes = {"MolarFlow"}
  /\ unit_registry = modules
  /\ env = Environment___init__
  /\ config = config_init
  /\ x = <<>>
  /\ last = NoCall
  /\ stack = <<>>
  /\ ncalls = 0
  /\ registry = z_units_UnitRegistry("length")
  /\ trip = NoTrip

NextFlow ==
  \/ \E value \in ValueInputs, unit \in UnitInputs(pkg, "MolarFlow") :
       Construct("a", "MolarFlow", value, unit)
  \/ \E unit \in UnitInputs(pkg, "MolarFlow") : To("a", unit)
  \/ \E t \in TemperatureInputs : set_standard_temperature(t, TRUE)
  \/ set_standard_temperature(Zero, FALSE)

SpecFlow == InitFlow /\ [][NextFlow]_vars

---------------------------------------------------------------------------
(* The program building a z_units UnitRegistry: register calls *)

\* a second Unit object with the symbol of the meter
metre == z_units_Unit("metre", <<"m">>, Fixed(One), Fixed(Zero), FALSE)

\* the units the program registers
RegisterInputs == {z_units_meter, z_units_centimeter, z_units_celsius, z_units_kelvin, metre}

\* registry.register(unit, is_base): a raising call leaves what it had done before
Register(unit, is_base) ==
  /\ registry' = register(registry, unit, is_base).reg
  /\ last' = [NoCall EXCEPT !.op = "register", !.unit = ArgUnit(unit),
                            !.b = IF is_base THEN "is_base" ELSE "",
                            !.r = IF register(registry, unit, is_base).exc # ""
                                    THEN Raise(register(registry, unit, is_base).exc, "")
                                    ELSE ReturnNone("")]
  /\ UNCHANGED <<unit_registry, env, pkg, classes, config, x, stack, ncalls, trip>>

InitReg ==
  /\ pkg = "z_units"
  /\ classes = {}
  /\ unit_registry = modules
  /\ env = Environment___init__
  /\ config = config_init
  /\ x = <<>>
  /\ last = NoCall
  /\ stack = <<>>
  /\ ncalls = 0
  /\ registry = z_units_UnitRegistry("length")
  /\ trip = NoTrip

\* the symbols looked up: 'm', 'cm', 'c m', 'K' and a symbol of no unit
LookupInputs == {<<"m">>, <<"c", "m">>, <<"c", " ", "m">>, <<"K">>, xyz}

\* registry.get_unit(symbol)
GetUnit(symbol) ==
  /\ last' = [NoCall EXCEPT !.op = "get_unit", !.unit = ArgStr(symbol),
                            !.r = ReturnUnit(z_units_get_unit(registry, symbol))]
  /\ UNCHANGED <<unit_registry, env, pkg, classes, config, x, stack, ncalls, registry, trip>>

\* length.get_unit(symbol) on the catalog registry of package p
CatalogGetUnit(p, symbol) ==
  /\ last' = [NoCall EXCEPT !.op = "get_unit", !.cls = "Length", !.a = p,
                            !.unit = ArgStr(symbol),
                            !.r = ReturnUnit(get_unit(p, "Length", symbol))]
  /\ UNCHANGED <<unit_registry, env, pkg, classes, config, x, stack, ncalls, registry, trip>>

NextReg ==
  \/ \E unit \in RegisterInputs, is_base \in BOOLEAN : Register(unit, is_base)
  \/ \E symbol \in LookupInputs : GetUnit(symbol)
  \/ \E p \in {"zunits", "z_units"}, symbol \in LookupInputs : CatalogGetUnit(p, symbol)

SpecReg == InitReg /\ [][NextReg]_vars

---------------------------------------------------------------------------
(* Unit.to_base_unit and Unit.from_base_unit applied to a value *)

\* the catalog units of both packages
UnitInputs_trip ==
  {meter, centimeter, celsius, kelvin, pascal, kilopascal, kilopascal_gauge,
   z_units_meter, z_units_centimeter, z_units_celsius, z_units_kelvin}

TripValues == {FromInt(n) : n \in (0 - MaxValue)..MaxValue}

\* the value the trip has reached
trip_value == IF trip.path = <<>> THEN trip.start ELSE trip.path[Len(trip.path)].value

\* trip.unit.to_base_unit(value)
ToBaseUnit ==
  /\ Len(trip.path) < MaxTrip
  /\ trip' = [trip EXCEPT !.path = Append(@, [op |-> "to_base_unit",
                                               value |-> to_base_unit(trip.unit, trip_value, config)])]
  /\ UNCHANGED <<unit_registry, env, pkg, classes, config, x, last, stack, ncalls, registry>>

\* trip.unit.from_base_unit(value): the catalog has no unit of factor 0
FromBaseUnit ==
  /\ Len(trip.path) < MaxTrip
  /\ ~IsZero(Unit_factor(trip.unit, config))
  /\ trip' = [trip EXCEPT !.path = Append(@, [op |-> "from_base_unit",
                                               value |-> from_base_unit(trip.unit, trip_value, config)])]
  /\ UNCHANGED <<unit_registry, env, pkg, classes, config, x, last, stack, ncalls, registry>>

InitUnit ==
  /\ pkg = "zunits"
  /\ classes = {}
  /\ unit_registry = modules
  /\ env = Environment___init__
  /\ config = config_init
  /\ x = <<>>
  /\ last = NoCall
  /\ stack = <<>>
  /\ ncalls = 0
  /\ registry = z_units_UnitRegistry("length")
  /\ \E u \in UnitInputs_trip, v \in TripValues : trip = [unit |-> u, start |-> v, path |-> <<>>]

NextUnit == ToBaseUnit \/ FromBaseUnit

SpecUnit == InitUnit /\ [][NextUnit]_vars

---------------------------------------------------------------------------
(* The program defining units: Unit(...) and number * unit *)

\* Unit(symbol, defined_by=..., factor=..., offset=...) of package p; z_units
\* has no defined_by and no check
Unit_new(p, symbol, defined_by, factor, offset, cfg) ==
  IF p = "zunits" THEN Unit___init__("new", symbol, defined_by, factor, offset, FALSE, cfg)
  ELSE [exc |-> "", unit |-> z_units_Unit("new", symbol, factor, offset, FALSE)]

\* Unit.__rmul__ of z_unit with the outcome of the Unit('dummy', factor=...) it ends with
Unit___rmul___outcome(self, other, cfg) ==
  Unit___init__("dummy", <<"d", "u", "m", "m", "y">>, <<>>,
                Fixed(fmul(other, Unit_factor(self, cfg))), Fixed(Zero), FALSE, cfg)

\* an operand of a composition: a unit, a number, or the int k of a power
UnitOperand(u) == [t |-> "unit", u |-> <<u>>, n |-> Zero, k |-> 0]

NumberOperand(f) == [t |-> "num", u |-> <<>>, n |-> f, k |-> 0]

PowerOperand(k) == [t |-> "int", u |-> <<>>, n |-> FromInt(k), k |-> k]

\* other.factor for a unit, other itself for a number
operand_factor(other, cfg) ==
  IF other.t = "unit" THEN Unit_factor(other.u[1], cfg) ELSE other.n

\* Unit.symbol_python_style
Unit_symbol_python_style(u) == u._symbol

\* str(k) of an int -9 <= k <= 9
str_int(k) ==
  LET digit == <<"0", "1", "2", "3", "4", "5", "6", "7", "8", "9">>
  IN IF k < 0 THEN <<"-", digit[1 - k]>> ELSE <<digit[1 + k]>>

\* a ** k of a float and an int k >= -1 (a # 0 when k < 0): pow rounds once
fpow(a, k) ==
  IF k = 0 THEN One
  ELSE IF k < 0 THEN fdiv(One, a)
  ELSE Round(a[1] ^ k, a[2] * k)

\* Unit(symbol, factor=factor), which every composition ends with: the offset
\* is the default, 0
Unit_of_factor(symbol, factor, cfg) ==
  Unit___init__("new", symbol, <<>>, Fixed(factor), Fixed(Zero), FALSE, cfg)

\* a division by zero: the unit is not made
ZeroDivisionError(self) == [exc |-> "ZeroDivisionError", unit |-> self]

\* a faulty __mul__, which composes the offsets as well: their sum
mul_adding_offsets(self, other, cfg) ==
  [exc |-> "",
   unit |-> [Unit_of_factor(<<"d", "u", "m", "m", "y">>,
                            fmul(Unit_factor(self, cfg), operand_factor(other, cfg)),
                            cfg).unit
               EXCEPT !._offset = Fixed(Unit_offset(self, cfg))]]

\* Unit.__mul__(other), other a unit or a number
Unit___mul__(self, other, cfg) ==
  Unit_of_factor(IF other.t = "unit"
                   THEN Unit_symbol_python_style(self) \o <<"*">>
                          \o Unit_symbol_python_style(other.u[1])
                   ELSE <<"d", "u", "m", "m", "y">>,
                 fmul(Unit_factor(self, cfg), operand_factor(other, cfg)), cfg)

\* Unit.__truediv__(other), other a unit or a number
Unit___truediv__(self, other, cfg) ==
  IF IsZero(operand_factor(other, cfg)) THEN ZeroDivisionError(self)
  ELSE Unit_of_factor(IF other.t = "unit"
                        THEN Unit_symbol_python_style(self) \o <<"/">>
                               \o Unit_symbol_python_style(other.u[1])
                        ELSE <<"d", "u", "m", "m", "y">>,
                      fdiv(Unit_factor(self, cfg), operand_factor(other, cfg)), cfg)

\* Unit.__rtruediv__(other), other a number: other / unit
Unit___rtruediv__(self, other, cfg) ==
  IF IsZero(Unit_factor(self, cfg)) THEN ZeroDivisionError(self)
  ELSE Unit_of_factor(<<"d", "u", "m", "m", "y">>, fdiv(other, Unit_factor(self, cfg)), cfg)

\* Unit.__pow__(power), power an int
Unit___pow__(self, power, cfg) ==
  IF IsZero(Unit_factor(self, cfg)) /\ power < 0 THEN ZeroDivisionError(self)
  ELSE Unit_of_factor(Unit_symbol_python_style(self) \o <<"*", "*">> \o str_int(power),
                      fpow(Unit_factor(self, cfg), power), cfg)

\* l <op> r as the interpreter evaluates it: the method of the left unit, or the
\* reflected method of the right unit when the left operand is a number
composed(op, l, r, cfg) ==
  CASE op = "*" /\ l.t = "unit" -> Unit___mul__(l.u[1], r, cfg)
    [] op = "*" /\ l.t = "num" -> Unit___rmul___outcome(r.u[1], l.n, cfg)
    [] op = "/" /\ l.t = "unit" -> Unit___truediv__(l.u[1], r, cfg)
    [] op = "/" /\ l.t = "num" -> Unit___rtruediv__(r.u[1], l.n, cfg)
    [] op = "**" -> Unit___pow__(l.u[1], r.k, cfg)

\* a unit whose factor is a function of the configuration
per_standard_temperature ==
  Unit("per_standard_temperature", <<"p", "T">>, <<>>, Callable("get_standard_temperature"), Fixed(Zero))

SymbolInputs == {<<"x">>, <<"x", " ", "y">>}

FactorInputs ==
  {Fixed(Zero), Fixed(One), Fixed(FromRatio(1, 100)), Fixed(FromInt(-3)),
   Callable("get_standard_temperature"), Callable("get_local_atmospheric_pressure")}

OffsetInputs == {Fixed(Zero), Fixed(FromInt(32)), Callable("get_local_atmospheric_pressure")}

DefinedByInputs == {<<>>, <<centimeter>>, <<per_standard_temperature>>}

ScaleInputs == {Zero, FromInt(3)}

\* a call that defines a unit: the arguments and how it ended
UnitCall(op, p, symbol, defined_by, factor, r) ==
  [factor |-> factor, defined_by |-> defined_by] @@
  [NoCall EXCEPT !.op = op, !.a = p, !.unit = ArgStr(symbol), !.r = ReturnUnit(r)]

\* Unit(symbol, defined_by=defined_by, factor=factor, offset=offset) in package p
NewUnit(p, symbol, defined_by, factor, offset) ==
  /\ p = "z_units" => defined_by = <<>>
  /\ last' = UnitCall("Unit", p, symbol, defined_by, factor,
                      Unit_new(p, symbol, defined_by, factor, offset, config))
  /\ UNCHANGED <<unit_registry, env, pkg, classes, config, x, stack, ncalls, registry, trip>>

\* other * unit, other a number, in z_unit
ScaleUnit(other, unit) ==
  /\ last' = UnitCall("__rmul__", "zunits", <<>>, <<unit>>, Fixed(other),
                      Unit___rmul___outcome(unit, other, config))
  /\ UNCHANGED <<unit_registry, env, pkg, classes, config, x, stack, ncalls, registry, trip>>

\* the units composed: fixed factors, a non-zero offset, a factor and an offset
\* that are functions of the configuration
ComposeUnits == {centimeter, kelvin, kilopascal_gauge, per_standard_temperature}

PowerInputs == {-1, 0, 2}

\* the pairs of operands of op
ComposeInputs(op) ==
  IF op = "**" THEN {<<UnitOperand(u), PowerOperand(k)>> : u \in ComposeUnits, k \in PowerInputs}
  ELSE {<<UnitOperand(u), UnitOperand(v)>> : u \in ComposeUnits, v \in ComposeUnits}
         \cup {<<UnitOperand(u), NumberOperand(f)>> : u \in ComposeUnits, f \in ScaleInputs}
         \cup {<<NumberOperand(f), UnitOperand(u)>> : u \in ComposeUnits, f \in ScaleInputs}

\* l * r, l / r or l ** r with a unit among the operands, in z_unit
Compose(op, l, r) ==
  /\ last' = [left |-> l, right |-> r] @@
             [NoCall EXCEPT !.op = op, !.r = ReturnUnit(composed(op, l, r, config))]
  /\ UNCHANGED <<unit_registry, env, pkg, classes, config, x, stack, ncalls, registry, trip>>

InitNew ==
  /\ pkg = "zunits"
  /\ classes = {"MolarFlow"}
  /\ unit_registry = modules
  /\ env = Environment___init__
  /\ config = config_init
  /\ x = <<>>
  /\ last = NoCall
  /\ stack = <<>>
  /\ ncalls = 0
  /\ registry = z_units_UnitRegistry("length")
  /\ trip = NoTrip

NextNew ==
  \/ \E p \in {"zunits", "z_units"}, symbol \in SymbolInputs, defined_by \in DefinedByInputs,
        factor \in FactorInputs, offset \in OffsetInputs :
          NewUnit(p, symbol, defined_by, factor, offset)
  \/ \E other \in ScaleInputs, unit \in {centimeter, per_standard_temperature} :
        ScaleUnit(other, unit)
  \/ \E op \in {"*", "/", "**"} : \E operands \in ComposeInputs(op) :
        Compose(op, operands[1], operands[2])
  \/ \E t \in TemperatureInputs : set_standard_temperature(t, TRUE)
  \/ set_standard_temperature(Zero, FALSE)

SpecNew == InitNew /\ [][NextNew]_vars

---------------------------------------------------------------------------
(* The program setting the Environment and converting with convert() *)

\* float('nan') given to a setter
ValNaN == [t |-> "nan", n |-> Zero, s |-> <<>>]

\* the values given to the setters: 0, -1, 1, 273.15, float('nan') and 'x'
EnvInputs ==
  {ValNum(Zero), ValNum(FromInt(-1)), ValNum(One), ValNum(FromRatio(5463, 20)), ValNaN,
   ValStr(<<"x">>)}

EnvFields == {"_atmospheric_pressure", "_standard_temperature", "_standard_pressure"}

\* a call on the Environment: the environment before it, the attribute, the
\* value given and how it ended
EnvCall(op, field, value, exc) ==
  [env |-> env] @@
  [NoCall EXCEPT !.op = op, !.b = field, !.val = value,
                 !.r = IF exc # "" THEN Raise(exc, "") ELSE ReturnNone("")]

\* env.atmospheric_pressure = value, env.standard_temperature = value,
\* env.standard_pressure = value
EnvSet(field, value) ==
  /\ env' = Environment_setter(env, field, value).env
  /\ last' = EnvCall("setter", field, value, Environment_setter(env, field, value).exc)
  /\ UNCHANGED <<unit_registry, pkg, classes, config, x, stack, ncalls, registry, trip>>

\* env.set_stp(temperature=temperature, pressure=pressure)
EnvSetStp(temperature, pressure) ==
  /\ env' = Environment_set_stp(env, temperature, pressure).env
  /\ last' = EnvCall("set_stp", "", temperature,
                     Environment_set_stp(env, temperature, pressure).exc)
  /\ UNCHANGED <<unit_registry, pkg, classes, config, x, stack, ncalls, registry, trip>>

\* env.reset()
EnvReset ==
  /\ env' = Environment_reset(env)
  /\ last' = EnvCall("reset", "", ValNone, "")
  /\ UNCHANGED <<unit_registry, pkg, classes, config, x, stack, ncalls, registry, trip>>

\* the symbols given to convert: 'm', 'cm', 'C', 'K', 'kPag' and a symbol of no unit
ConvertSymbols == {<<"m">>, <<"c", "m">>, <<"C">>, <<"K">>, <<"k", "P", "a", "g">>, xyz}

InitEnv ==
  /\ unit_registry = modules
  /\ env = Environment___init__
  /\ pkg = "zunits"
  /\ classes = {}
  /\ config = config_init
  /\ x = <<>>
  /\ last = NoCall
  /\ stack = <<>>
  /\ ncalls = 0
  /\ registry = z_units_UnitRegistry("length")
  /\ trip = NoTrip

NextEnv ==
  \/ \E field \in EnvFields, value \in EnvInputs : EnvSet(field, value)
  \/ \E temperature \in EnvInputs, pressure \in EnvInputs : EnvSetStp(temperature, pressure)
  \/ EnvReset
  \/ \E value \in ValueInputs, from_unit \in ConvertSymbols, to_unit \in ConvertSymbols :
        Convert(value, from_unit, to_unit)

SpecEnv == InitEnv /\ [][NextEnv]_vars

---------------------------------------------------------------------------
(* Exact arithmetic on the numbers <<m, e>>, for stating the properties *)

Min(a, b) == IF a <= b THEN a ELSE b

\* a + b, a * b, k * a (k an integer) and |a| without rounding
dadd(a, b) ==
  <<a[1] * (2 ^ (a[2] - Min(a[2], b[2]))) + b[1] * (2 ^ (b[2] - Min(a[2], b[2]))),
    Min(a[2], b[2])>>

dmul(a, b) == <<a[1] * b[1], a[2] + b[2]>>

dscale(k, a) == <<k * a[1], a[2]>>

dabs(a) == <<Abs(a[1]), a[2]>>

\* a <= b, a < b
dleq(a, b) == dadd(a, fneg(b))[1] <= 0

dless(a, b) == dadd(a, fneg(b))[1] < 0

\* |a - b|
ddist(a, b) == dabs(dadd(a, fneg(b)))

---------------------------------------------------------------------------
(* Properties of Quantity.to *)

\* a Quantity with a value and a unit
present(q) == q.has_value /\ q.value # None /\ q._unit # <<>>

\* the last call was q.to(t) on a q with a value, t a symbol of q's family
to_called ==
  /\ last.op = "to"
  /\ present(last.q)
  /\ last.unit.t = "str"
  /\ last.unit.s \in FamilySymbols(pkg, last.q.cls)

\* the unit registered under the symbol of the last call
to_target == get_unit(pkg, last.q.cls, last.unit.s).unit[1]

\* t.from_base_unit(q.unit.to_base_unit(q.value)) under the configuration in force
to_converted ==
  from_base_unit(to_target, to_base_unit(last.q._unit[1], last.q.value, config), config)

\* the call returned a Quantity of q's kind, in the unit t, of the value v
to_returned(v) ==
  /\ last.r.exc = ""
  /\ last.r.t \in {"new", "self"}
  /\ last.r.obj.cls = last.q.cls
  /\ last.r.obj._unit = <<to_target>>
  /\ last.r.obj.has_value
  /\ last.r.obj.value = v

\* C1 as stated: for every Quantity q with a value and every symbol t of q's
\* family, q.to(t) returns a Quantity of q's kind in the unit t whose value is
\* t.from_base_unit(q.unit.to_base_unit(q.value)), and leaves q as it was.
C1_to_value_is_conversion ==
  to_called => (x[last.a] = last.q /\ to_returned(to_converted))

\* C1 amended: for every Quantity q with a value and every symbol t of q's
\* family, q.to(t) leaves q.value and q.unit unchanged and returns a new Quantity
\* of q's kind in the unit t whose value is
\* t.from_base_unit(q.unit.to_base_unit(q.value)) under the configuration in
\* force, except that zunits returns q itself, its value not converted, when t
\* is the unit q already has.
C1_to_converts_unless_same_unit ==
  to_called =>
    /\ x[last.a] = last.q
    /\ IF pkg = "zunits" /\ to_target = last.q._unit[1]
         THEN last.r.t = "self" /\ last.r.obj = last.q
         ELSE last.r.t = "new" /\ to_returned(to_converted)

\* C1 witness: a to() that converted into another unit and changed the value
C1_witness_converted ==
  /\ to_called
  /\ last.r.t = "new"
  /\ to_target # last.q._unit[1]
  /\ last.r.obj.value # last.q.value
  /\ last.r.obj.value = to_converted

---------------------------------------------------------------------------
(* Properties of Unit.to_base_unit and Unit.from_base_unit *)

\* a fixed, non-zero factor and a fixed offset
fixed(u) == ~callable(u._factor) /\ ~callable(u._offset) /\ ~IsZero(u._factor.num)

\* the value went through one operation and then through the other
round_trip(first) ==
  /\ Len(trip.path) = 2
  /\ trip.path[1].op = first
  /\ trip.path[2].op # first
  /\ fixed(trip.unit)

\* the unit roundoff is 2^-Precision: 2^Precision * a
by_roundoff(a) == <<a[1], a[2] + Precision>>

\* C2 as stated: for a Unit of fixed non-zero factor and fixed offset and every
\* value v, from_base_unit(to_base_unit(v)) = v and
\* to_base_unit(from_base_unit(v)) = v exactly.
C2_round_trip_exact ==
  (round_trip("to_base_unit") \/ round_trip("from_base_unit")) =>
    trip.path[2].value = trip.start

\* C2 amended: for a Unit of fixed non-zero factor f and fixed offset o and every
\* value v, the round trips return v up to the rounding of the four float
\* operations, eps being the unit roundoff:
\*   |from_base_unit(to_base_unit(v)) - v| <= eps * (5|v| + 2|o / f|)
\*   |to_base_unit(from_base_unit(v)) - v| <= eps * (5|v| + 4|o|)
C2_round_trip_within_rounding ==
  /\ round_trip("to_base_unit") =>
       dleq(dmul(by_roundoff(ddist(trip.path[2].value, trip.start)),
                 dabs(trip.unit._factor.num)),
            dadd(dscale(5, dmul(dabs(trip.start), dabs(trip.unit._factor.num))),
                 dscale(2, dabs(trip.unit._offset.num))))
  /\ round_trip("from_base_unit") =>
       dleq(by_roundoff(ddist(trip.path[2].value, trip.start)),
            dadd(dscale(5, dabs(trip.start)), dscale(4, dabs(trip.unit._offset.num))))

\* C2 witness: a round trip through a unit with an offset that did not return
\* the value it started from
C2_witness_inexact_round_trip ==
  /\ round_trip("to_base_unit")
  /\ ~IsZero(trip.unit._offset.num)
  /\ trip.path[2].value # trip.start

---------------------------------------------------------------------------
(* Properties of the comparisons *)

\* the value of q in the base unit of its family: q.unit.to_base_unit(q.value)
base_value(q) == to_base_unit(q._unit[1], q.value, config)

\* the last call compared two Quantities that have values
compared(ops) ==
  /\ last.op \in ops
  /\ present(x[last.a])
  /\ present(x[last.b])

same_kind == x[last.a].cls = x[last.b].cls

\* C3: for two Quantities a and b with values, a == b is true exactly when they
\* are of the same kind and their base-unit values are equal; for different
\* kinds it is false, and it never raises.
C3_eq_iff_same_kind_and_base_value ==
  compared({"=="}) =>
    /\ last.r.exc = ""
    /\ last.r.t = "bool"
    /\ last.r.b = (same_kind /\ base_value(x[last.a]) = base_value(x[last.b]))

\* C3 witness: two Quantities in different units compared equal
C3_witness_equal_across_units ==
  /\ compared({"=="})
  /\ last.r.b
  /\ x[last.a]._unit # x[last.b]._unit

\* a <op> b on the base values, computed exactly
ordered(op, a, b) ==
  CASE op = "<" -> dless(a, b)
    [] op = "<=" -> dleq(a, b)
    [] op = ">" -> dless(b, a)
    [] op = ">=" -> dleq(b, a)

\* how many of a < b, a == b, a > b are true
true_among(a, b) ==
  Cardinality({op \in {"<", "==", ">"} :
                 compare(op, a, b, config).t = "bool" /\ compare(op, a, b, config).b})

C5_cross_kind_ordering_rejected ==
  (compared({"<", "<=", ">", ">="}) /\ ~same_kind) => last.r.exc # ""

---------------------------------------------------------------------------
(* Properties of the multiplication *)

\* the last call was q * n or n * q, n a number, and it is over
multiplied_by_number ==
  /\ last.op = "*"
  /\ last.r.t # ""
  /\ (last.a = "") # (last.b = "")

\* the variable holding q
multiplied == IF last.a # "" THEN last.a ELSE last.b

\* the call returned a new Quantity of q's kind and unit, of the value q.value * n
product_returned ==
  /\ x[multiplied] = last.q
  /\ last.r.exc = ""
  /\ last.r.t = "new"
  /\ last.r.obj.cls = last.q.cls
  /\ last.r.obj._unit = last.q._unit
  /\ last.r.obj.has_value
  /\ last.r.obj.value = fmul(last.q.value, last.num)

\* C6 as stated: for every Quantity q and every number n, q * n and n * q each
\* return a new Quantity of q's kind and unit of the value q.value * n, and
\* leave q unchanged.
C6_product_of_every_quantity == multiplied_by_number => product_returned

\* C7: the product of two Quantities, of one kind or of two, ends with the
\* unsupported-operand TypeError after a bounded number of __mul__/__rmul__
\* calls: one __mul__ for one kind, and no re-entry without end for two.
C7_quantity_product_unsupported ==
  (last.op = "*" /\ last.r.t # "" /\ last.a # "" /\ last.b # "") =>
    (last.r.exc = "TypeError" /\ last.ncalls <= 2)

---------------------------------------------------------------------------
(* Properties of the construction and of the unit a Quantity holds *)

\* C8: a Quantity constructed from a number with the unit omitted or empty is
\* in the base unit of its family; with a symbol of the family, in the unit
\* registered under it; with any other symbol the construction fails, the unit
\* not being found.
C8_construct_binds_unit ==
  (last.op = "__init__" /\ last.val.t # "str") =>
    IF falsy(last.unit)
      THEN last.r.exc = "" /\ last.r.obj._unit = base_unit(pkg, last.cls)
    ELSE IF last.unit.s \in FamilySymbols(pkg, last.cls)
      THEN last.r.exc = "" /\ last.r.obj._unit = get_unit(pkg, last.cls, last.unit.s).unit
    ELSE last.r.exc = "ValueError"

\* the unit of q is one its kind's registry holds
in_registry(q) ==
  /\ q._unit # <<>>
  /\ \E sym \in FamilySymbols(pkg, q.cls) : get_unit(pkg, q.cls, sym).unit = q._unit

\* C9: after any calls, failed ones too, every Quantity there is has a unit of
\* its kind's registry, and a failed assignment to .unit leaves the unit as it was.
C9_unit_always_registered ==
  /\ \A n \in DOMAIN x : in_registry(x[n])
  /\ last.r.t \in {"new", "self"} => in_registry(last.r.obj)
  /\ (last.op = "unit=" /\ last.r.exc # "") => x[last.a] = last.q

---------------------------------------------------------------------------
(* Properties of UnitRegistry.register *)

\* the unit of the last register call
registered == last.unit.u[1]

\* C10: register(unit) fails when unit.symbol is already a key of the registry,
\* and the registry is then exactly what it was before the call: the unit
\* registered before stays mapped to the symbol.
C10_register_duplicate_symbol ==
  [][(last'.op = "register" /\ has_key(registry, Unit_symbol(last'.unit.u[1]))) =>
       (last'.r.exc = "ValueError" /\ registry' = registry)]_vars

\* C10 witness: a register call failed on a symbol another unit holds
C10_witness_duplicate_refused ==
  /\ last.op = "register"
  /\ last.r.exc = "ValueError"
  /\ \E i \in 1..Len(registry._units) :
       /\ registry._units[i].key = Unit_symbol(registered)
       /\ registry._units[i].unit.id # registered.id

\* C11: register(unit, is_base=True) on a registry that has a base unit fails
\* and leaves no partial result: the registry's units, symbols and base unit
\* are what they were, the rejected unit not among them.
C11_register_second_base_leaves_nothing ==
  [][(last'.op = "register" /\ last'.b = "is_base" /\ registry._base_unit # <<>>) =>
       (last'.r.exc = "ValueError" /\ registry' = registry)]_vars

\* the registry has at most one base unit, and it is one of its units
base_unit_registered ==
  /\ Len(registry._base_unit) <= 1
  /\ \A i \in 1..Len(registry._base_unit) :
       \E j \in 1..Len(registry._units) : registry._units[j].unit = registry._base_unit[i]

\* C12: in every state register calls reach, the registry has at most one base
\* unit, the base unit is one of the registry's units, and a base unit once
\* set is never replaced by a later call.
C12_one_base_unit_never_replaced ==
  /\ []base_unit_registered
  /\ [][registry._base_unit # <<>> => registry'._base_unit = registry._base_unit]_vars

\* C12 witness: a second is_base registration was refused and the base unit is
\* still the first one
C12_witness_second_base_refused ==
  /\ last.op = "register"
  /\ last.b = "is_base"
  /\ last.r.exc = "ValueError"
  /\ registry._base_unit # <<>>
  /\ Unit_symbol(registry._base_unit[1]) # Unit_symbol(registered)

\* the last call was registry.get_unit(symbol), on the registry being built
looked_up == last.op = "get_unit" /\ last.a = ""

\* C13: the registry only grows: a unit once registered is what get_unit
\* returns for its symbol after every later register call, and get_unit(s)
\* fails exactly when no register call for a unit of symbol s has succeeded
\* (a symbol becomes a key only by a register call that succeeds).
C13_get_unit_iff_registered ==
  /\ [](looked_up =>
          IF has_key(registry, last.unit.s)
            THEN last.r.exc = "" /\ Unit_symbol(last.r.unit[1]) = last.unit.s
            ELSE last.r.exc = "ValueError")
  /\ [][\A s \in LookupInputs :
          /\ has_key(registry, s) =>
               z_units_get_unit(registry', s) = z_units_get_unit(registry, s)
          /\ (~has_key(registry, s) /\ has_key(registry', s)) =>
               (last'.op = "register" /\ last'.r.exc = ""
                /\ last'.unit.u = z_units_get_unit(registry', s).unit)]_vars

\* C14: get_unit(symbol) strips the spaces of its argument as Unit construction
\* strips those of a symbol, then looks it up exactly: a symbol that differs
\* from a registered one only by spaces resolves to that unit.
C14_get_unit_strips_spaces ==
  /\ looked_up =>
       last.r = ReturnUnit(z_units_get_unit(registry, RemoveSpaces(last.unit.s)))
  /\ (last.op = "get_unit" /\ last.a # "") =>
       last.r = ReturnUnit(get_unit(last.a, last.cls, RemoveSpaces(last.unit.s)))

---------------------------------------------------------------------------
(* Properties of the construction of a Unit *)

\* the last call defined a unit, by Unit(...) or by number * unit
unit_defined == last.op \in {"Unit", "__rmul__"}

\* the number the factor of the unit is, when it is not a function: the factor
\* of defined_by, the product for number * unit, or the factor given
literal_factor ==
  IF last.op = "__rmul__"
    THEN <<fmul(last.factor.num, Unit_factor(last.defined_by[1], config))>>
  ELSE IF last.defined_by # <<>> THEN <<Unit_factor(last.defined_by[1], config)>>
  ELSE IF callable(last.factor) THEN <<>>
  ELSE <<last.factor.num>>

\* C15: constructing a Unit fails when its literal factor is 0, a factor taken
\* from defined_by or made by scaling a unit included; a function given as the
\* factor is accepted as it is, not called and not checked.
C15_zero_factor_rejected ==
  unit_defined =>
    IF literal_factor # <<>> /\ IsZero(literal_factor[1])
      THEN last.r.exc = "ValueError"
      ELSE /\ last.r.exc = ""
           /\ last.r.unit._symbol = RemoveSpaces(last.unit.s) \/ last.op = "__rmul__"
           /\ last.r.unit._factor =
                IF literal_factor # <<>> THEN Fixed(literal_factor[1]) ELSE last.factor

---------------------------------------------------------------------------
(* Properties of the conversions that read the configuration *)

\* the last call converted a MolarFlow in 'Nm3/h' to 'Sm3/h'
to_standard_flow ==
  /\ to_called
  /\ last.q.cls = "MolarFlow"
  /\ Unit_symbol(last.q._unit[1]) = <<"N", "m", "3", "/", "h">>
  /\ last.unit.s = <<"S", "m", "3", "/", "h">>

\* the value the same to() returns under the standard temperature t
at_standard_temperature(t) ==
  Quantity_to(pkg, last.q, last.unit, [config EXCEPT !.standard_temperature = t]).obj.value

\* C16: the conversion of a MolarFlow from 'Nm3/h' to 'Sm3/h' is made with the
\* standard temperature in force when to() is called: under another standard
\* temperature the same Quantity converts to another value, and under the same
\* one, set again, to exactly the same value.
C16_standard_flow_follows_temperature ==
  to_standard_flow =>
    /\ last.r.exc = ""
    /\ \A t \in TemperatureInputs :
         (at_standard_temperature(t) = last.r.obj.value) <=> (t = config.standard_temperature)

\* the last call converted an absolute pressure to a gauge unit
to_gauge ==
  /\ to_called
  /\ last.q.cls = "Pressure"
  /\ ~callable(last.q._unit[1]._offset)
  /\ to_target._offset = Callable("get_local_atmospheric_pressure")

\* the value the same to() returns under the local atmospheric pressure p
gauge_at(p) ==
  Quantity_to(pkg, last.q, last.unit, [config EXCEPT !.local_atmospheric_pressure = p]).obj.value

\* (b - p) / f in floats, b the base value of the pressure converted, p the
\* local atmospheric pressure in force and f the factor of the gauge unit
gauge_of_absolute ==
  /\ last.r.exc = ""
  /\ last.r.t = "new"
  /\ last.r.obj.value =
       fdiv(fsub(base_value(last.q), get_local_atmospheric_pressure(config)),
            Unit_factor(to_target, config))

\* |(g - g') * f - (p' - p)|, without rounding: how far the fall of the gauge
\* result from p to p' is from (p' - p) / f
gauge_fall_error(p) ==
  ddist(dmul(dadd(last.r.obj.value, fneg(gauge_at(p))), Unit_factor(to_target, config)),
        dadd(p, fneg(get_local_atmospheric_pressure(config))))

---------------------------------------------------------------------------
(* Properties of the Environment *)

positive(v) == v # nan /\ v[1] > 0

\* C19: in every state the setters and reset() reach, atmospheric_pressure,
\* standard_temperature and standard_pressure are strictly positive; each
\* setter rejects a value <= 0 with an error and leaves the value stored.
C19_environment_positive ==
  /\ \A field \in EnvFields : positive(env[field])
  /\ (last.op = "setter" /\ last.val.t = "num" /\ le_zero(last.val.n)) =>
       (last.r.exc = "ValueError" /\ env = last.env)

---------------------------------------------------------------------------
(* Properties of convert *)

\* the kinds whose registry has both symbols of the last convert call
kinds_matched ==
  {i \in 1..Len(quantity_registry) :
     issubset(last.q._unit[1], last.unit.s, quantity_registry[i])}

---------------------------------------------------------------------------
(* C21: conversions and comparisons leave the shared state alone *)

\* the calls that convert, compare or multiply
ReadingCalls == {"to", "to_base", "convert", "==", ">", ">=", "<", "<=", "*"}

\* C21: a step of to, to_base, convert, ==, <, <=, >, >= or of a multiplication
\* leaves the configuration (standard temperature, local atmospheric pressure)
\* and every registry (its units, symbols and base unit) as they were.
C21_reading_calls_write_nothing ==
  [][last'.op \in ReadingCalls => (config' = config /\ unit_registry' = unit_registry)]_vars

\* a conversion made after the local atmospheric pressure was set, which is
\* still the pressure set
C21_witness_conversion_after_set ==
  /\ last.op \in {"to", "convert"}
  /\ last.r.exc = ""
  /\ last.r.t = "new"
  /\ config # config_init
  /\ unit_registry = modules

---------------------------------------------------------------------------
(* C22: to and to_base on a Quantity of value None *)

\* the Quantity has the value None
absent(q) == q.has_value /\ q.value = None

\* C22: to(target) on a Quantity whose value is None returns None for every
\* target, a symbol of the family or not, without raising, and so does to_base().
C22_to_of_none_is_none ==
  (last.op \in {"to", "to_base"} /\ absent(last.q)) =>
    (last.r.exc = "" /\ last.r.t = "None")

\* to() was called on a Quantity of value None with a symbol of no unit
C22_witness_none_to_unknown_unit ==
  /\ last.op = "to"
  /\ absent(last.q)
  /\ last.unit = ArgStr(xyz)
  /\ last.r.t = "None"

---------------------------------------------------------------------------
(* C23: construction from a string *)

\* the last call constructed, or failed to construct, a Quantity from a string
from_string == last.op = "__init__" /\ last.val.t = "str"

\* the length of the numeric prefix of the string given, 0 when there is none
numeric_prefix == re_match_v(Strip(last.val.s))

\* what follows the numeric prefix, stripped
trailing_symbol ==
  Strip(SubSeq(Strip(last.val.s), numeric_prefix + 1, Len(Strip(last.val.s))))

\* C23: a string that does not begin with a number makes the construction fail,
\* no Quantity without a value and a unit is ever held, and a string with a
\* numeric prefix and a trailing symbol, given without a unit, makes a Quantity
\* of the number parsed in the unit of that symbol.
C23_string_without_number_fails ==
  /\ \A n \in DOMAIN x : x[n].has_value /\ x[n]._unit # <<>>
  /\ (from_string /\ numeric_prefix = 0) => last.r.exc # ""
  /\ (from_string /\ numeric_prefix > 0 /\ last.unit.t = "None" /\ trailing_symbol # <<>>
        /\ last.r.exc = "") =>
       /\ last.r.obj.value = float(SubSeq(Strip(last.val.s), 1, numeric_prefix))
       /\ last.r.obj._unit = get_unit(pkg, last.cls, trailing_symbol).unit

---------------------------------------------------------------------------
(* C24: the composition of units *)

\* the last call composed units: l * r, l / r or l ** r
composing == last.op \in {"*", "/", "**"}

\* the divisor of the composition is 0: a number 0, a unit whose factor resolves
\* to 0, or a factor 0 raised to a negative power
divides_by_zero ==
  \/ last.op = "/" /\ IsZero(operand_factor(last.right, config))
  \/ last.op = "**" /\ last.right.k < 0 /\ IsZero(operand_factor(last.left, config))

\* the product, quotient or power of the operands' factors under the
\* configuration in force
composed_factor ==
  CASE last.op = "*" -> fmul(operand_factor(last.left, config), operand_factor(last.right, config))
    [] last.op = "/" -> fdiv(operand_factor(last.left, config), operand_factor(last.right, config))
    [] last.op = "**" -> fpow(operand_factor(last.left, config), last.right.k)

\* the composition returned a new unit: its factor is the number composed, not
\* a function, and its offset is 0
composed_unit ==
  /\ last.r.exc = ""
  /\ last.r.unit._factor = Fixed(composed_factor)
  /\ last.r.unit._offset = Fixed(Zero)

\* a step of a composition leaves the units of the catalog as they were
composition_reads == [][last'.op \in {"*", "/", "**"} => unit_registry' = unit_registry]_vars

---------------------------------------------------------------------------
(* C25: to() while another thread sets the configuration *)

\* the last to() converted: it made its four reads of the configuration
raced == last.op = "to" /\ Len(last.seen) = 4

\* what the same to() returns when nothing runs between its reads, under cfg
undisturbed(cfg) == zunits_Quantity_to(last.q, last.unit, cfg)

\* the value made of the four reads, each under the configuration in force
\* when it was made
value_of_reads ==
  fdiv(fsub(fadd(fmul(Unit_factor(last.q._unit[1], last.seen[1]), last.q.value),
                 Unit_offset(last.q._unit[1], last.seen[2])),
            Unit_offset(to_target, last.seen[3])),
       Unit_factor(to_target, last.seen[4]))

\* C25: to() reads the configuration separately for its own unit and for the
\* target, with no lock: the value returned is made of the reads as they
\* happened, it is the undisturbed result when no setter ran between them, and
\* otherwise it may be the result under none of the configurations.
C25_to_reads_configuration_piecewise ==
  raced =>
    /\ last.r.exc = "" => last.r.obj.value = value_of_reads
    /\ (\A i \in 1..4 : last.seen[i] = last.seen[1]) => last.r = undisturbed(last.seen[1])

\* kPag was converted to barg, the setter ran between the reads for kPag and
\* the reads for barg, and the value returned is the result neither under the
\* configuration before nor under the configuration after
C25_witness_neither_old_nor_new ==
  /\ raced
  /\ last.r.exc = ""
  /\ Unit_symbol(last.q._unit[1]) = <<"k", "P", "a", "g">>
  /\ last.unit = ArgStr(<<"b", "a", "r", "g">>)
  /\ last.seen[1] = last.seen[2] /\ last.seen[3] = last.seen[4]
  /\ last.r.obj.value # undisturbed(last.seen[1]).obj.value
  /\ last.r.obj.value # undisturbed(last.seen[4]).obj.value

---------------------------------------------------------------------------
(* C26: Environment.set_stp *)

\* C26: set_stp(temperature, pressure) either stores both values or fails and
\* leaves the standard temperature and the standard pressure as they were.
C26_set_stp_all_or_nothing ==
  last.op = "set_stp" =>
    IF last.r.exc # "" THEN env = last.env
    ELSE /\ env._standard_temperature = (IF last.val.t = "nan" THEN nan ELSE last.val.n)
         /\ env._atmospheric_pressure = last.env._atmospheric_pressure

---------------------------------------------------------------------------
(* Unit.to_base_unit and Unit.from_base_unit of the catalog units under    *)
(* every configuration the setters accept                                  *)

\* the divisor of the standard-volume lambdas: T_0C + get_standard_temperature()
standard_volume_divisor(cfg) == fadd(T_0C, get_standard_temperature(cfg))

\* Unit.factor of a callable factor: the exception the called lambda raises
Unit_factor_raises(u, cfg) ==
  IF /\ u._factor.fn \in {"standard_cubic_meter", "standard_cubic_meter_per_hour"}
     /\ IsZero(standard_volume_divisor(cfg))
    THEN "ZeroDivisionError" ELSE ""

ReturnNumber == [exc |-> "", t |-> "number", obj |-> object(""), b |-> FALSE]

\* unit.to_base_unit(value): self.factor * value + self.offset
Unit_to_base_unit(u, value, cfg) ==
  IF Unit_factor_raises(u, cfg) # ""
    THEN [r |-> Raise(Unit_factor_raises(u, cfg), ""), at |-> "factor", out |-> Zero]
    ELSE [r |-> ReturnNumber, at |-> "", out |-> to_base_unit(u, value, cfg)]

\* unit.from_base_unit(value): (value - self.offset) / self.factor
Unit_from_base_unit(u, value, cfg) ==
  IF Unit_factor_raises(u, cfg) # ""
    THEN [r |-> Raise(Unit_factor_raises(u, cfg), ""), at |-> "factor", out |-> Zero]
    ELSE IF IsZero(Unit_factor(u, cfg))
    THEN [r |-> Raise("ZeroDivisionError", ""), at |-> "from_base_unit", out |-> Zero]
    ELSE [r |-> ReturnNumber, at |-> "", out |-> from_base_unit(u, value, cfg)]

\* the units of the z_unit catalog
CatalogUnits ==
  UNION {{unit_registry.zunits[cls]._units[i] : i \in 1..Len(unit_registry.zunits[cls]._units)} :
           cls \in DOMAIN unit_registry.zunits}

\* numbers set_standard_temperature accepts: 20, 0, -273.15
StandardTemperatureInputs == {FromInt(20), Zero, FromRatio(-5463, 20)}

\* numbers set_local_atmospheric_pressure accepts: ATM, 50000, 0
AtmosphericPressureInputs == {ATM, FromInt(50000), Zero}

MethodInputs == {FromInt(0), FromInt(1), FromInt(-3)}

UnitMethod(op, unit, value, outcome) ==
  /\ unit \in CatalogUnits
  /\ last' = [at |-> outcome.at, out |-> outcome.out] @@
             [NoCall EXCEPT !.op = op, !.unit = ArgUnit(unit), !.num = value,
                            !.r = outcome.r]
  /\ UNCHANGED <<unit_registry, env, pkg, classes, config, x, stack, ncalls, registry, trip>>

CallToBaseUnit(unit, value) ==
  UnitMethod("to_base_unit", unit, value, Unit_to_base_unit(unit, value, config))

CallFromBaseUnit(unit, value) ==
  UnitMethod("from_base_unit", unit, value, Unit_from_base_unit(unit, value, config))

InitPole ==
  /\ pkg = "zunits"
  /\ classes = {"Pressure", "MolarFlow"}
  /\ unit_registry = modules
  /\ env = Environment___init__
  /\ config = config_init
  /\ x = <<>>
  /\ last = NoCall
  /\ stack = <<>>
  /\ ncalls = 0
  /\ registry = z_units_UnitRegistry("length")
  /\ trip = NoTrip

NextPole ==
  \/ \E t \in StandardTemperatureInputs : set_standard_temperature(t, TRUE)
  \/ \E p \in AtmosphericPressureInputs : set_local_atmospheric_pressure(p, TRUE)
  \/ \E unit \in CatalogUnits, value \in MethodInputs : CallToBaseUnit(unit, value)
  \/ \E unit \in CatalogUnits, value \in MethodInputs : CallFromBaseUnit(unit, value)

SpecPole == InitPole /\ [][NextPole]_vars

\* C27: under every configuration the setters accept, to_base_unit of a catalog
\* unit returns a number, and a ZeroDivisionError arises only in the division of
\* from_base_unit, by a callable factor that resolved to 0.
C27_division_by_zero_only_in_from_base_unit ==
  /\ last.op = "to_base_unit" => last.r.exc = ""
  /\ (last.op \in {"to_base_unit", "from_base_unit"} /\ last.r.exc = "ZeroDivisionError") =>
       /\ last.op = "from_base_unit"
       /\ last.at = "from_base_unit"
       /\ callable(last.unit.u[1]._factor)

---------------------------------------------------------------------------
(* C28: comparisons of Quantities whose value is None *)

\* the last call compared two Quantities of one kind, each with a value attribute
compared_same_kind ==
  /\ last.op \in {"==", ">", ">="}
  /\ x[last.a].has_value /\ x[last.b].has_value
  /\ x[last.a].cls = x[last.b].cls

\* C28: ==, > and >= on two Quantities of the same kind return a result and never
\* raise, also when the value of one or of both is None.
C28_comparison_never_raises == compared_same_kind => last.r.exc = ""

---------------------------------------------------------------------------
(* The program working with absolute and gauge pressures: conversions and  *)
(* comparisons while the local atmospheric pressure is set                 *)

\* the pressure family with the fixed units Pa, kPa, bar and the gauge unit kPag
pressure_with_fixed_units ==
  [modules EXCEPT !.zunits.Pressure =
     UnitRegistry___init__(<<pascal, kilopascal, bar, kilopascal_gauge>>, <<>>).reg]

InitFixed ==
  /\ pkg = "zunits"
  /\ classes = {"Pressure"}
  /\ unit_registry = pressure_with_fixed_units
  /\ env = Environment___init__
  /\ config = config_init
  /\ x = <<>>
  /\ last = NoCall
  /\ stack = <<>>
  /\ ncalls = 0
  /\ registry = z_units_UnitRegistry("length")
  /\ trip = NoTrip

NextFixed ==
  \/ \E value \in ValueInputs, unit \in OperandUnitInputs(pkg, "Pressure") :
       Construct("a", "Pressure", value, unit)
  \/ \E unit \in OperandUnitInputs(pkg, "Pressure") :
       Construct("b", "Pressure", ValNum(One), unit)
  \/ \E n \in DOMAIN x : \E unit \in OperandUnitInputs(pkg, "Pressure") \cup {ArgStr(xyz)} :
       To(n, unit)
  \/ \E op \in {"==", ">", ">="} : \E l \in Names, r \in Names : Compare(op, l, r)
  \/ \E p \in PressureInputs : set_local_atmospheric_pressure(p, TRUE)

SpecFixed == InitFixed /\ [][NextFixed]_vars

\* the configurations the setters can leave
Configurations ==
  [local_atmospheric_pressure : AtmosphericPressureInputs,
   standard_temperature : StandardTemperatureInputs]

\* the last call was a to() from a fixed unit to a fixed unit (or to no unit)
to_between_fixed_units ==
  /\ last.op = "to"
  /\ last.q._unit # <<>> /\ fixed(last.q._unit[1])
  /\ get_unit(pkg, last.q.cls, str(last.unit)).exc = "" =>
       fixed(get_unit(pkg, last.q.cls, str(last.unit)).unit[1])

\* the last call compared two Quantities in fixed units
compared_in_fixed_units ==
  /\ last.op \in {"==", ">", ">="}
  /\ \A n \in {last.a, last.b} : x[n]._unit # <<>> /\ fixed(x[n]._unit[1])

\* C29: a to() call and a ==, > or >= comparison that involve only units with a
\* fixed factor and a fixed offset give the same result under every configuration.
C29_fixed_units_ignore_configuration ==
  /\ to_between_fixed_units =>
       \A cfg \in Configurations : Quantity_to(pkg, last.q, last.unit, cfg) = last.r
  /\ compared_in_fixed_units =>
       \A cfg \in Configurations : compare(last.op, x[last.a], x[last.b], cfg) = last.r

\* a value in Pa was converted to another fixed unit after the local atmospheric
\* pressure had been set to another value, and a gauge unit would have shown it
C29_witness_fixed_conversion_after_set ==
  /\ to_between_fixed_units
  /\ config # config_init
  /\ last.r.exc = "" /\ last.r.t = "new"
  /\ last.r.obj.value # last.q.value
  /\ Quantity_to(pkg, last.q, ArgStr(<<"k", "P", "a", "g">>), config)
       # Quantity_to(pkg, last.q, ArgStr(<<"k", "P", "a", "g">>), config_init)

---------------------------------------------------------------------------
(* The program building a z_unit UnitRegistry from a list of units *)

\* UnitRegistry.symbols of z_unit: the keys of _symbol_to_unit
z_unit_symbols(reg) == DOMAIN reg._symbol_to_unit

\* the longest list of units the program passes
MaxUnits == 3

ListedUnits == {meter, centimeter, celsius, kelvin}

UnitLists == UNION {[1..n -> ListedUnits] : n \in 0..MaxUnits}

BaseUnitInputs == {<<>>, <<meter>>, <<celsius>>}

\* reg = UnitRegistry(units, base_unit): a raising constructor leaves no registry
NewUnitRegistry(list, base) ==
  /\ last' = [reg |-> IF UnitRegistry___init__(list, base).exc = ""
                        THEN <<UnitRegistry___init__(list, base).reg>> ELSE <<>>,
              units |-> list, base_unit |-> base] @@
             [NoCall EXCEPT !.op = "UnitRegistry",
                            !.r = IF UnitRegistry___init__(list, base).exc = ""
                                    THEN ReturnNone("")
                                    ELSE Raise(UnitRegistry___init__(list, base).exc, "")]
  /\ UNCHANGED <<unit_registry, env, pkg, classes, config, x, stack, ncalls, registry, trip>>

\* reg.get_unit(unit.symbol) on the registry built last
RegistryGetUnit(unit) ==
  /\ "reg" \in DOMAIN last /\ last.reg # <<>>
  /\ last' = [reg |-> last.reg, units |-> last.units, base_unit |-> last.base_unit] @@
             [NoCall EXCEPT !.op = "get_unit", !.unit = ArgUnit(unit),
                            !.r = ReturnUnit(z_unit_get_unit(last.reg[1], Unit_symbol(unit)))]
  /\ UNCHANGED <<unit_registry, env, pkg, classes, config, x, stack, ncalls, registry, trip>>

InitList ==
  /\ pkg = "zunits"
  /\ classes = {}
  /\ unit_registry = modules
  /\ env = Environment___init__
  /\ config = config_init
  /\ x = <<>>
  /\ last = NoCall
  /\ stack = <<>>
  /\ ncalls = 0
  /\ registry = z_units_UnitRegistry("length")
  /\ trip = NoTrip

NextList ==
  \/ \E list \in UnitLists, base \in BaseUnitInputs : NewUnitRegistry(list, base)
  \/ \E unit \in ListedUnits : RegistryGetUnit(unit)

SpecList == InitList /\ [][NextList]_vars

\* C30: after UnitRegistry(units, base_unit) has returned, every unit of the list
\* resolves, get_unit(u.symbol) returns u and u.symbol is in symbols, whether the
\* base unit was detected in the list or passed explicitly.
C30_every_listed_unit_resolves ==
  /\ (last.op = "UnitRegistry" /\ last.reg # <<>>) =>
       \A i \in 1..Len(last.units) :
         Unit_symbol(last.units[i]) \in z_unit_symbols(last.reg[1])
  /\ (last.op = "get_unit" /\ \E i \in 1..Len(last.units) : last.units[i] = last.unit.u[1]) =>
       last.r.exc = "" /\ last.r.unit = last.unit.u

=============================================================================
